---------------------------- MODULE Spec2Model ----------------------------
(***************************************************************************)
(* A model of the GoodbyeDPI packet-transformation engine: the packet      *)
(* view, the five strategies, the pipeline, the execution context with its *)
(* two tracking tables, and the orchestration loop of the command line.    *)
(*                                                                         *)
(* The repository carries two source layouts, crates/ and v2/crates/.      *)
(* Where a file exists in both and the two differ in behaviour, the model  *)
(* keeps both and the variable "layout" says which one is linked in.       *)
(***************************************************************************)
EXTENDS Integers, Sequences, FiniteSets, TLC

VARIABLES
    layout,      \* which fake_packet.rs is built: "crates" or "v2"
    config,      \* the Config the strategies were built from
    strategies,  \* Pipeline.strategies
    next_id,     \* history: how many strategies were ever added
    ctx,         \* the Context: stats, blacklist flag, the two trackers
    now,         \* the monotonic clock (Instant::now), in seconds
    pc,          \* where the orchestration loop is
    running,     \* the AtomicBool the ctrl-c handler clears
    captured,    \* the CapturedPacket of the current iteration
    outq,        \* the packets of the current iteration not yet sent
    sendlog,     \* history: the send calls of the current iteration
    result,      \* history: what the last process / lookup call returned
    observed,    \* history: the SYN-ACKs the loop has received, by flow
    recorded,    \* history: the last record call of each hop-table key
    thr,         \* the threads of the concurrent tracker scenario
    driver,      \* the WinDivertDriver the orchestration loop owns
    service      \* the GUI's ServiceController, its workers and the engine

vars == << layout, config, strategies, next_id, ctx, now, pc, running,
           captured, outq, sendlog, result, observed, recorded, thr, driver,
           service >>

-----------------------------------------------------------------------------
(* Bounds of the model *)

MaxStrategies == 4
MaxCalls == 2
MaxTime == 80

(* Program constants *)

U16 == 65536
TcpTimeout == 60
DnsTimeout == 5
DefaultFakeTtl == 8
NormalTtl == 64
SeqShift == 10000
AckShift == 66000
QuicMinPayload == 1200
DefaultPriority == 100
CleanupInterval == 30

-----------------------------------------------------------------------------
(* Option<T> *)

None == [some |-> FALSE, v |-> 0]
Some(x) == [some |-> TRUE, v |-> x]

(* Sequence helpers *)

RECURSIVE Concat(_)
Concat(ss) == IF ss = << >> THEN << >> ELSE Head(ss) \o Concat(Tail(ss))

Prefix(s, n) == SubSeq(s, 1, n)
Suffix(s, n) == SubSeq(s, n + 1, Len(s))

(* s[i..i+Len(m)) = m, with i counted from 0 as the code does *)
MatchAt(s, i, m) ==
    /\ i + Len(m) <= Len(s)
    /\ \A j \in 1..Len(m) : s[i + j] = m[j]

(* u32: a 32-bit word is kept as its two 16-bit halves *)
Word(hi, lo) == [hi |-> hi, lo |-> lo]

\* u32::wrapping_add(w, n) and u32::wrapping_sub(w, n) for 0 <= n < 2^31
wrapping_add(w, n) ==
    LET lo == w.lo + (n % U16)
        hi == w.hi + (n \div U16) + (lo \div U16)
    IN  Word(hi % U16, lo % U16)

wrapping_sub(w, n) ==
    LET lo == w.lo - (n % U16)
        borrow == IF lo < 0 THEN 1 ELSE 0
        hi == w.hi - (n \div U16) - borrow
    IN  Word((hi + U16) % U16, (lo + U16) % U16)
SatSub(a, b) == IF a > b THEN a - b ELSE 0

-----------------------------------------------------------------------------
(* Payload bytes *)

HostMarker == << 13, 10, 72, 111, 115, 116, 58, 32 >> \* "\r\nHost: "
CrLf == << 13, 10 >>

HttpMethods ==
    { << 71, 69, 84, 32 >>,  << 80, 79, 83, 84 >>, << 72, 69, 65, 68 >>,
      << 80, 85, 84, 32 >>,  << 68, 69, 76, 69 >>, << 67, 79, 78, 78 >>,
      << 79, 80, 84, 73 >> }

\* "GET /\r\nHost: abc\r\n\r\n"
HttpRequestPayload ==
    << 71, 69, 84, 32, 47 >> \o HostMarker \o << 97, 98, 99 >> \o CrLf \o CrLf

\* the benign decoy: "GET / HTTP/1.1\r\nHost: www.w3.org\r\n..." (shortened)
FakeHttpPayload ==
    << 71, 69, 84, 32, 47, 32 >> \o HostMarker \o << 119, 51 >> \o CrLf \o CrLf

\* a TLS record header of a ClientHello and the first bytes of the handshake
TlsHelloPayload == << 22, 3, 1, 2, 0, 1, 0, 1, 252, 3, 3 >>
FakeTlsPayload == << 22, 3, 1, 2, 0, 1, 0, 1, 252, 3, 3, 154 >>

\* a ClientHello of 55 bytes whose server-name extension carries "a.b":
\* record and handshake header, 30 bytes of random, then the extension
\* 00 00 | 00 08 | 00 06 | 00 | 00 03 | "a.b", and two more bytes
TlsSniPayload ==
    TlsHelloPayload \o [i \in 1..30 |-> 9]
        \o << 0, 0, 0, 8, 0, 6, 0, 0, 3, 97, 46, 98 >> \o << 9, 9 >>

\* a DNS query header: id, flags 0x0100, qdcount 1, ancount 0
DnsQueryPayload == << 0, 7, 1, 0, 0, 1, 0, 0, 0, 0, 0, 0, 3 >>

\* a QUIC Initial: long header, version 1, padded to the minimum size
QuicInitialPayload ==
    [i \in 1..QuicMinPayload |-> IF i = 1 THEN 192 ELSE IF i = 5 THEN 1 ELSE 0]

-----------------------------------------------------------------------------
(* Packet: the parsed view of one IP packet.  "total_len" is the IPv4       *)
(* total-length field, "hlen" is ip_header_len + transport_header_len.      *)
(* origin, off and hist are history fields, no part of the program: origin  *)
(* tells a decoy from the captured packet, off is the offset of a           *)
(* fragment's payload in the captured payload, hist lists the positions of  *)
(* the strategies whose apply produced the packet.                          *)

MkPacket(dir, proto, saddr, sport, daddr, dport, flags, ttl, seq, payload) ==
    [ dir |-> dir, proto |-> proto, ipv4 |-> TRUE,
      saddr |-> saddr, sport |-> sport, daddr |-> daddr, dport |-> dport,
      flags |-> flags, ttl |-> ttl, seq |-> Word(0, seq), ack |-> Word(0, 500),
      hlen |-> IF proto = "tcp" THEN 40 ELSE 28,
      total_len |-> (IF proto = "tcp" THEN 40 ELSE 28) + Len(payload),
      payload |-> payload, cksum |-> "valid", is_fake |-> FALSE,
      origin |-> "real", off |-> 0, hist |-> << >> ]

is_outbound(p) == p.dir = "out"
is_inbound(p) == p.dir = "in"
is_tcp(p) == p.proto = "tcp"
is_udp(p) == p.proto = "udp"
is_ipv4(p) == p.ipv4
is_syn_ack(p) == is_tcp(p) /\ "syn" \in p.flags /\ "ack" \in p.flags
payload_len(p) == Len(p.payload)

is_http_request(p) ==
    /\ Len(p.payload) >= 4
    /\ Prefix(p.payload, 4) \in HttpMethods

is_tls_client_hello(p) ==
    /\ Len(p.payload) >= 3
    /\ p.payload[1] = 22
    /\ p.payload[2] = 3
    /\ (p.payload[3] = 1 \/ p.payload[3] = 3)


\* extract_http_host: the bytes between "\r\nHost: " and the next "\r\n",
\* if their number is within 3..253
FindFrom(s, m, from) ==
    LET hits == { i \in from..Len(s) : MatchAt(s, i, m) }
    IN  IF hits = {} THEN None
        ELSE Some(CHOOSE i \in hits : \A j \in hits : i <= j)

extract_http_host(p) ==
    LET at == FindFrom(p.payload, HostMarker, 0)
    IN  IF ~at.some THEN None
        ELSE LET host_start == at.v + Len(HostMarker)
                 rel == FindFrom(p.payload, CrLf, host_start)
             IN  IF ~rel.some THEN None
                 ELSE LET host == SubSeq(p.payload, host_start + 1, rel.v)
                      IN  IF Len(host) >= 3 /\ Len(host) <= 253
                          THEN Some(host) ELSE None

\* extract_sni gives up on a payload of fewer than 44 bytes; longer
\* ClientHellos are scanned for the server-name extension
extract_sni(p) ==
    IF Len(p.payload) < 44 THEN None
    ELSE LET ok(ptr) ==
                 /\ ptr + 10 < Len(p.payload)
                 /\ p.payload[ptr + 1] = 0 /\ p.payload[ptr + 2] = 0
                 /\ LET ext_len == p.payload[ptr + 3] * 256 + p.payload[ptr + 4]
                        list_len == p.payload[ptr + 5] * 256 + p.payload[ptr + 6]
                        name_type == p.payload[ptr + 7]
                        name_len == p.payload[ptr + 8] * 256 + p.payload[ptr + 9]
                    IN  /\ ext_len = list_len + 2
                        /\ list_len = name_len + 3
                        /\ name_type = 0
                        /\ ptr + 9 + name_len <= Len(p.payload)
                        /\ name_len >= 3 /\ name_len <= 253
                        /\ \A k \in 1..name_len :
                             LET b == p.payload[ptr + 9 + k]
                             IN  \/ (b >= 48 /\ b <= 57)
                                 \/ (b >= 97 /\ b <= 122)
                                 \/ b = 46 \/ b = 45
             hits == { ptr \in 0..Len(p.payload) : ok(ptr) }
         IN  IF hits = {} THEN None
             ELSE LET ptr == CHOOSE i \in hits : \A j \in hits : i <= j
                      name_len == p.payload[ptr + 8] * 256 + p.payload[ptr + 9]
                  IN  Some(SubSeq(p.payload, ptr + 10, ptr + 9 + name_len))

-----------------------------------------------------------------------------
(* DomainFilter: hostnames are byte strings *)

ToLower(h) == [i \in 1..Len(h) |-> IF h[i] >= 65 /\ h[i] <= 90 THEN h[i] + 32 ELSE h[i]]

\* the parent domains of h: h itself, then h with one leading label after
\* the other stripped
RECURSIVE Ancestors(_)
Ancestors(h) ==
    LET dots == { i \in 1..Len(h) : h[i] = 46 }
    IN  IF dots = {} THEN { h }
        ELSE LET pos == CHOOSE i \in dots : \A j \in dots : i <= j
             IN  { h } \cup Ancestors(Suffix(h, pos))

\* a match that looks no further than the name and its parent
FilterMatchesOneLevel(f, hostname) ==
    LET h == ToLower(hostname)
        dots == { i \in 1..Len(h) : h[i] = 46 }
    IN  \/ h \in f.exact
        \/ h \in f.wildcard
        \/ /\ dots # {}
           /\ Suffix(h, CHOOSE i \in dots : \A j \in dots : i <= j) \in f.wildcard

\* DomainFilter::matches
FilterMatches(f, hostname) ==
    LET h == ToLower(hostname)
    IN  \/ h \in f.exact
        \/ \E a \in Ancestors(h) : a \in f.wildcard

\* str::trim, for the blanks and tabs of a list file
RECURSIVE Trim(_)
Trim(s) ==
    IF s = << >> THEN s
    ELSE IF s[1] \in {32, 9} THEN Trim(Tail(s))
    ELSE IF s[Len(s)] \in {32, 9} THEN Trim(Prefix(s, Len(s) - 1))
    ELSE s

\* DomainFilter::add_domain: "*.name" goes to the wildcards without its
\* prefix, anything else to the exact names; comments and blanks are skipped
add_domain(f, domain) ==
    LET d == ToLower(Trim(domain))
    IN  IF d = << >> THEN f
        ELSE IF d[1] = 35 THEN f
        ELSE IF MatchAt(d, 0, << 42, 46 >>)
             THEN [f EXCEPT !.wildcard = @ \cup { Suffix(d, 2) }]
             ELSE [f EXCEPT !.exact = @ \cup { d }]

\* DomainFilter::remove_domain
remove_domain(f, domain) ==
    LET d == ToLower(Trim(domain))
    IN  IF MatchAt(d, 0, << 42, 46 >>)
        THEN [f EXCEPT !.wildcard = @ \ { Suffix(d, 2) }]
        ELSE [f EXCEPT !.exact = @ \ { d }]

\* DomainFilter::clear
clear(f) == [f EXCEPT !.exact = {}, !.wildcard = {}]

\* a check that treats a whitelist as a blacklist
FilterCheckListedOnly(f, hostname) ==
    CASE f.mode = "disabled" -> TRUE
      [] f.mode = "whitelist" -> FilterMatches(f, hostname)
      [] f.mode = "blacklist" -> FilterMatches(f, hostname)

\* DomainFilter::check: TRUE for ApplyBypass
FilterCheck(f, hostname) ==
    CASE f.mode = "disabled" -> TRUE
      [] f.mode = "whitelist" -> ~FilterMatches(f, hostname)
      [] f.mode = "blacklist" -> FilterMatches(f, hostname)

NoFilter == [mode |-> "disabled", exact |-> {}, wildcard |-> {}]

-----------------------------------------------------------------------------
(* The tracking tables.  A table is a function from the keys it holds to    *)
(* the entries; every entry carries the instant it was created.             *)

EmptyTable == << >>

TableInsert(t, k, e) == [x \in (DOMAIN t) \cup {k} |-> IF x = k THEN e ELSE t[x]]
TableRemove(t, k) == [x \in (DOMAIN t) \ {k} |-> t[x]]

ConnKey(server_ip, server_port, client_ip, client_port) ==
    << server_ip, server_port, client_ip, client_port >>

\* TcpConnTracker::record
TcpRecord(t, key, ttl, at) == TableInsert(t, key, [ttl |-> ttl, created |-> at])

\* a get_ttl that takes an entry of exactly the timeout's age for fresh
TcpGetTtlInclusive(t, key, at, timeout) ==
    IF key \in DOMAIN t
    THEN IF at - t[key].created <= timeout
         THEN [ret |-> Some(t[key].ttl), table |-> t]
         ELSE [ret |-> None, table |-> TableRemove(t, key)]
    ELSE [ret |-> None, table |-> t]

\* TcpConnTracker::get_ttl as one thread runs it: the value returned and the
\* table left behind (an expired entry is removed)
TcpGetTtl(t, key, at, timeout) ==
    IF key \in DOMAIN t
    THEN IF at - t[key].created < timeout
         THEN [ret |-> Some(t[key].ttl), table |-> t]
         ELSE [ret |-> None, table |-> TableRemove(t, key)]
    ELSE [ret |-> None, table |-> t]

\* TcpConnTracker::cleanup
TcpCleanup(t, at, timeout) ==
    [k \in { x \in DOMAIN t : at - t[x].created < timeout } |-> t[k]]

\* DnsConnTracker::track_query, get_original, remove, cleanup
DnsTrackQuery(t, src_port, ip, port, at) ==
    TableInsert(t, src_port, [ip |-> ip, port |-> port, created |-> at])

DnsGetOriginal(t, src_port, at, timeout) ==
    IF src_port \in DOMAIN t
    THEN IF at - t[src_port].created < timeout
         THEN [ret |-> Some(<< t[src_port].ip, t[src_port].port >>), table |-> t]
         ELSE [ret |-> None, table |-> TableRemove(t, src_port)]
    ELSE [ret |-> None, table |-> t]

DnsRemove(t, src_port) == TableRemove(t, src_port)

DnsCleanup(t, at, timeout) ==
    [k \in { x \in DOMAIN t : at - t[x].created < timeout } |-> t[k]]

-----------------------------------------------------------------------------
(* Context *)

ZeroStats ==
    [ packets_processed |-> 0, packets_fragmented |-> 0, fake_packets_sent |-> 0,
      headers_modified |-> 0, quic_blocked |-> 0, dns_redirected |-> 0,
      packets_dropped |-> 0 ]

\* Context::new
NewContext ==
    [ stats |-> ZeroStats, blacklist_enabled |-> FALSE, filter |-> NoFilter,
      tcp_tracker |-> EmptyTable, dns_tracker |-> EmptyTable ]

\* Context::with_filter
ContextWithFilter(f) ==
    [ NewContext EXCEPT !.filter = f, !.blacklist_enabled = (f.mode # "disabled") ]

\* Context::is_blacklisted, which asks the domain filter
is_blacklisted(c, hostname) == FilterCheck(c.filter, hostname)

\* Context::get_connection_ttl: the key is the packet's destination, then its
\* source
get_connection_ttl(c, p, at) ==
    TcpGetTtl(c.tcp_tracker, ConnKey(p.daddr, p.dport, p.saddr, p.sport), at, TcpTimeout)

\* Context::record_connection_ttl: the key is the SYN-ACK's source, then its
\* destination
record_connection_ttl(c, p, at) ==
    IF is_syn_ack(p)
    THEN [c EXCEPT !.tcp_tracker =
              TcpRecord(@, ConnKey(p.saddr, p.sport, p.daddr, p.dport), p.ttl, at)]
    ELSE c

\* Context::dns_track_query
dns_track_query(c, src_port, original_dst, original_port, at) ==
    [c EXCEPT !.dns_tracker = DnsTrackQuery(@, src_port, original_dst, original_port, at)]

\* a counter that counts down
BumpDown(c, counter, n) == [c EXCEPT !.stats[counter] = @ - n]

\* "ctx.stats.counter += n"
Bump(c, counter, n) == [c EXCEPT !.stats[counter] = @ + n]

\* Context::reset_stats
reset_stats(c) == [c EXCEPT !.stats = ZeroStats]

-----------------------------------------------------------------------------
(* StrategyAction, and what Pipeline::process makes of each variant *)

Pass(p) == [tag |-> "Pass", packets |-> << p >>, inject |-> << >>]
Replace(ps) == [tag |-> "Replace", packets |-> ps, inject |-> << >>]
Drop == [tag |-> "Drop", packets |-> << >>, inject |-> << >>]
InjectBefore(inject, original) ==
    [tag |-> "InjectBefore", packets |-> << original >>, inject |-> inject]
InjectAfter(original, inject) ==
    [tag |-> "InjectAfter", packets |-> << original >>, inject |-> inject]

\* an expansion that puts the injected packets of InjectBefore last
ExpandDecoysLast(action) ==
    CASE action.tag = "Pass" -> action.packets
      [] action.tag = "Replace" -> action.packets
      [] action.tag = "Drop" -> << >>
      [] action.tag = "InjectBefore" -> action.packets \o action.inject
      [] action.tag = "InjectAfter" -> action.packets \o action.inject

Expand(action) ==
    CASE action.tag = "Pass" -> action.packets
      [] action.tag = "Replace" -> action.packets
      [] action.tag = "Drop" -> << >>
      [] action.tag = "InjectBefore" -> action.inject \o action.packets
      [] action.tag = "InjectAfter" -> action.packets \o action.inject

\* what apply returns: Ok(action) or Err, and the context it leaves
Applied(action, c) == [ok |-> TRUE, action |-> action, ctx |-> c]
Failed(c) == [ok |-> FALSE, action |-> Drop, ctx |-> c]

-----------------------------------------------------------------------------
(* QuicBlockStrategy *)

QuicShouldApply(p, c) ==
    /\ is_outbound(p)
    /\ is_udp(p)
    /\ p.dport = 443
    /\ payload_len(p) >= QuicMinPayload

is_quic_initial(p) ==
    /\ Len(p.payload) >= QuicMinPayload
    /\ p.payload[1] >= 192
    /\ Len(p.payload) >= 5
    /\ LET version == ((p.payload[2] * 256 + p.payload[3]) * 256 + p.payload[4]) * 256
                         + p.payload[5]
       IN  version = 1 \/ version = 0

\* an apply that drops the packet without counting it
QuicApplyUncounted(p, c) ==
    IF is_quic_initial(p)
    THEN Applied(Drop, c)
    ELSE Applied(Pass(p), c)

\* QuicBlockStrategy::apply
QuicApply(p, c) ==
    IF is_quic_initial(p)
    THEN Applied(Drop, Bump(c, "quic_blocked", 1))
    ELSE Applied(Pass(p), c)

(* DnsRedirectStrategy *)

DnsShouldApply(p, c) ==
    /\ is_outbound(p)
    /\ is_udp(p)
    /\ p.dport = 53
    /\ is_ipv4(p)

is_dns_query(payload) ==
    /\ Len(payload) >= 12
    /\ payload[3] < 128                       \* QR bit clear
    /\ payload[5] * 256 + payload[6] # 0      \* qdcount
    /\ payload[7] * 256 + payload[8] = 0      \* ancount

\* DnsRedirectStrategy::new(upstream, config.dns.ipv4_port.unwrap_or(53))
DnsRedirectStrategy(dns) ==
    [ upstream |-> dns.ipv4_upstream.v,
      port |-> IF dns.ipv4_port.some THEN dns.ipv4_port.v ELSE 53 ]

redirect_packet(p, dns) == [p EXCEPT !.daddr = dns.upstream, !.dport = dns.port]

\* an apply that tracks the query after it has redirected it
DnsApplyTrackRedirected(p, c, at) ==
    IF ~is_dns_query(p.payload)
    THEN Applied(Pass(p), c)
    ELSE Applied(Pass(redirect_packet(p, DnsRedirectStrategy(config.dns))),
                 Bump(dns_track_query(c, p.sport, DnsRedirectStrategy(config.dns).upstream,
                                      DnsRedirectStrategy(config.dns).port, at),
                      "dns_redirected", 1))

\* DnsRedirectStrategy::apply
DnsApply(p, c, at) ==
    IF ~is_dns_query(p.payload)
    THEN Applied(Pass(p), c)
    ELSE Applied(Pass(redirect_packet(p, DnsRedirectStrategy(config.dns))),
                 Bump(dns_track_query(c, p.sport, p.daddr, p.dport, at),
                      "dns_redirected", 1))

-----------------------------------------------------------------------------
(* FakePacketStrategy *)

NoAutoTtl == [some |-> FALSE, a1 |-> 0, a2 |-> 0, max |-> 0]
AutoTtl(a1, a2, max) == [some |-> TRUE, a1 |-> a1, a2 |-> a2, max |-> max]

\* an auto_ttl_calculate that forgets the configured maximum
auto_ttl_calculate_uncapped(fk, conn_ttl) ==
    LET a == fk.auto_ttl
        known == (conn_ttl > 98 /\ conn_ttl < 128) \/ (conn_ttl > 34 /\ conn_ttl < 64)
        nhops == IF conn_ttl > 98 /\ conn_ttl < 128 THEN 128 - conn_ttl ELSE 64 - conn_ttl
        first == SatSub(nhops, a.a2)
        scale == (((a.a2 - a.a1) % 256) * nhops) \div 10
        refined == IF first < a.a2 /\ nhops <= 9
                   THEN SatSub(SatSub(nhops, a.a1), scale)
                   ELSE first
    IN  IF ~known THEN None
        ELSE IF fk.min_ttl_hops.some /\ nhops < fk.min_ttl_hops.v THEN None
        ELSE IF refined > 0 THEN Some(refined) ELSE None

\* auto_ttl_calculate.  "a2 - a1" is a subtraction of u8, which wraps
\* around 256 when a1 > a2 and the build does not check overflow; the scale
\* is computed in f32 and truncated, which for these operands is the
\* integer quotient.
auto_ttl_calculate(fk, conn_ttl) ==
    LET a == fk.auto_ttl
        known == (conn_ttl > 98 /\ conn_ttl < 128) \/ (conn_ttl > 34 /\ conn_ttl < 64)
        nhops == IF conn_ttl > 98 /\ conn_ttl < 128 THEN 128 - conn_ttl ELSE 64 - conn_ttl
        first == SatSub(nhops, a.a2)
        scale == (((a.a2 - a.a1) % 256) * nhops) \div 10
        refined == IF first < a.a2 /\ nhops <= 9
                   THEN SatSub(SatSub(nhops, a.a1), scale)
                   ELSE first
        capped == IF refined > a.max THEN a.max ELSE refined
    IN  IF ~known THEN None
        ELSE IF fk.min_ttl_hops.some /\ nhops < fk.min_ttl_hops.v THEN None
        ELSE IF capped > 0 THEN Some(capped) ELSE None

\* the call comes to "a2 - a1" with a1 > a2
Underflows(fk, conn_ttl) ==
    LET a == fk.auto_ttl
        known == (conn_ttl > 98 /\ conn_ttl < 128) \/ (conn_ttl > 34 /\ conn_ttl < 64)
        nhops == IF conn_ttl > 98 /\ conn_ttl < 128 THEN 128 - conn_ttl ELSE 64 - conn_ttl
    IN  /\ known
        /\ ~(fk.min_ttl_hops.some /\ nhops < fk.min_ttl_hops.v)
        /\ SatSub(nhops, a.a2) < a.a2
        /\ nhops <= 9
        /\ a.a1 > a.a2

\* auto_ttl_calculate as the build runs it: with overflow checks, as in a
\* debug build, the underflow is a panic; without them the difference wraps
auto_ttl_outcome(fk, conn_ttl, overflow_checks) ==
    [ underflow |-> Underflows(fk, conn_ttl),
      panic |-> overflow_checks /\ Underflows(fk, conn_ttl),
      ret |-> IF overflow_checks /\ Underflows(fk, conn_ttl) THEN None
              ELSE auto_ttl_calculate(fk, conn_ttl) ]

\* calculate_ttl after the hop lookup returned got: the TTL, and the hop
\* table the lookup leaves
TtlFromLookup(fk, c, got) ==
    [ ret |-> IF got.ret.some THEN auto_ttl_calculate(fk, got.ret.v)
              ELSE Some(DefaultFakeTtl),
      ctx |-> [c EXCEPT !.tcp_tracker = got.table] ]

calculate_ttl(fk, c, p, at) ==
    IF fk.ttl.some
    THEN [ret |-> Some(fk.ttl.v), ctx |-> c]
    ELSE IF fk.auto_ttl.some
         THEN TtlFromLookup(fk, c, get_connection_ttl(c, p, at))
         ELSE [ret |-> Some(DefaultFakeTtl), ctx |-> c]

\* Packet::with_new_payload of the crates layout. Its packet module is not
\* among the sources; the definition follows the call site in
\* create_fake_packet and the specification: the payload is replaced and
\* the IP length follows it
with_new_payload(p, bytes) ==
    [p EXCEPT !.payload = bytes, !.total_len = (p.hlen + Len(bytes)) % U16,
              !.cksum = "zero"]

WrongSeq(p, wrong_seq) ==
    IF wrong_seq /\ is_tcp(p)
    THEN [p EXCEPT !.seq = wrapping_sub(p.seq, SeqShift),
                   !.ack = wrapping_sub(p.ack, AckShift)]
    ELSE p

\* create_fake_packet of crates/: the decoy carries the benign payload and
\* is marked
CreateFakePacketCrates(original, fake_payload, ttl, wrong_seq) ==
    LET fake == [with_new_payload(original, fake_payload) EXCEPT
                    !.is_fake = TRUE, !.ttl = ttl, !.origin = "decoy"]
    IN  [WrongSeq(fake, wrong_seq) EXCEPT !.cksum = "zero"]

\* create_fake_packet of v2/crates/: the decoy is the original's bytes parsed
\* again; the payload argument is never used and nothing marks the packet
CreateFakePacketV2(original, fake_payload, ttl, wrong_seq) ==
    LET fake == [original EXCEPT !.ttl = ttl, !.origin = "decoy"]
    IN  WrongSeq(fake, wrong_seq)

create_fake_packet(original, fake_payload, ttl, wrong_seq) ==
    IF layout = "crates"
    THEN CreateFakePacketCrates(original, fake_payload, ttl, wrong_seq)
    ELSE CreateFakePacketV2(original, fake_payload, ttl, wrong_seq)

\* create_fake_https / create_fake_http
create_fake(original, ttl, wrong_seq) ==
    create_fake_packet(original,
                       IF original.dport = 443 THEN FakeTlsPayload ELSE FakeHttpPayload,
                       ttl, wrong_seq)

damage_checksum(p) == [p EXCEPT !.cksum = "damaged"]

FakeShouldApply(p, c) ==
    /\ is_outbound(p)
    /\ is_tcp(p)
    /\ payload_len(p) # 0
    /\ LET is_http == p.dport = 80 /\ is_http_request(p)
           is_https == p.dport = 443 /\ is_tls_client_hello(p)
           hostname == IF is_http THEN extract_http_host(p) ELSE extract_sni(p)
       IN  /\ is_http \/ is_https
           /\ (c.blacklist_enabled /\ hostname.some) => is_blacklisted(c, hostname.v)

\* the decoys of one round of the resend loop
FakeRound(fk, p, ttl) ==
    (IF fk.ttl.some \/ fk.auto_ttl.some THEN << create_fake(p, ttl, FALSE) >> ELSE << >>)
    \o (IF fk.wrong_checksum
        THEN << damage_checksum(create_fake(p, NormalTtl, FALSE)) >> ELSE << >>)
    \o (IF fk.wrong_seq THEN << create_fake(p, NormalTtl, TRUE) >> ELSE << >>)

InjectDecoys(fake_packets, p, c) ==
    Applied(InjectBefore(fake_packets, p),
            Bump(c, "fake_packets_sent", Len(fake_packets)))

\* apply once calculate_ttl has answered t
FakeApplyWith(fk, p, t) ==
    IF ~t.ret.some
    THEN Applied(Pass(p), t.ctx)
    ELSE InjectDecoys(Concat([i \in 1..fk.resend_count |-> FakeRound(fk, p, t.ret.v)]),
                      p, t.ctx)

FakeApply(p, c, at) ==
    FakeApplyWith(config.fake, p, calculate_ttl(config.fake, c, p, at))

-----------------------------------------------------------------------------
(* HeaderMangleStrategy *)

HostColon == << 13, 10, 72, 111, 115, 116, 58 >>      \* "\r\nHost:"
HostReplacement == << 13, 10, 104, 111, 83, 116, 58 >> \* "\r\nhoSt:"

\* the first i in 0..len.saturating_sub(marker.len()) where the marker stands
FindMarker(payload, marker) ==
    LET hits == { i \in 0..(SatSub(Len(payload), Len(marker)) - 1) :
                    MatchAt(payload, i, marker) }
    IN  IF hits = {} THEN None
        ELSE Some(CHOOSE i \in hits : \A j \in hits : i <= j)

Overwrite(payload, at, bytes) ==
    [k \in 1..Len(payload) |->
        IF k > at /\ k <= at + Len(bytes) THEN bytes[k - at] ELSE payload[k]]

\* replace_host_header: the payload left, and whether it was changed
replace_host_header(payload) ==
    LET at == FindMarker(payload, HostColon)
    IN  IF at.some
        THEN [payload |-> Overwrite(payload, at.v, HostReplacement), changed |-> TRUE]
        ELSE [payload |-> payload, changed |-> FALSE]

\* find_host_header: (start of the marker, end of the value), from 0
find_host_header(payload) ==
    LET ends(i) == { j \in (i + Len(HostMarker))..(SatSub(Len(payload), 1) - 1) :
                       MatchAt(payload, j, CrLf) }
        starts == { i \in 0..(SatSub(Len(payload), Len(HostMarker)) - 1) :
                      MatchAt(payload, i, HostMarker) /\ ends(i) # {} }
    IN  IF starts = {} THEN [some |-> FALSE, start |-> 0, end |-> 0]
        ELSE LET i == CHOOSE x \in starts : \A y \in starts : x <= y
                 j == CHOOSE x \in ends(i) : \A y \in ends(i) : x <= y
             IN  [some |-> TRUE, start |-> i, end |-> j]

\* mix_case_hostname on payload[from..to): every second byte, if a lowercase
\* letter, becomes uppercase
mix_case_hostname(payload, from, to) ==
    [k \in 1..Len(payload) |->
        IF /\ k > from /\ k <= to
           /\ (k - 1 - from) % 2 = 1
           /\ payload[k] >= 97 /\ payload[k] <= 122
        THEN payload[k] - 32
        ELSE payload[k]]

HeaderMangleShouldApply(p, c) ==
    /\ is_outbound(p)
    /\ is_tcp(p)
    /\ p.dport = 80
    /\ is_http_request(p)

\* the first step of apply: "Host:" becomes "hoSt:"
ReplaceStep(hm, payload) ==
    IF hm.host_replace THEN replace_host_header(payload)
    ELSE [payload |-> payload, changed |-> FALSE]

\* the second step: the case of the host name is mixed, where hdr is what
\* find_host_header finds in the payload the first step left
MixCaseStep(hm, payload, hdr) ==
    IF hm.host_mix_case /\ hdr.some /\ hdr.start + 8 < hdr.end
    THEN [payload |-> mix_case_hostname(payload, hdr.start + 8, hdr.end),
          changed |-> TRUE]
    ELSE [payload |-> payload, changed |-> FALSE]

Mangled(p, c, r1, r2) ==
    Applied(Pass([p EXCEPT !.payload = r2.payload]),
            IF r1.changed \/ r2.changed THEN Bump(c, "headers_modified", 1) ELSE c)

MangleSteps(hm, p, c, r1) ==
    Mangled(p, c, r1, MixCaseStep(hm, r1.payload, find_host_header(r1.payload)))

\* apply of a strategy built from the header-mangle configuration hm
HeaderMangleApplyWith(hm, p, c) ==
    IF Len(p.payload) = 0
    THEN Applied(Pass(p), c)
    ELSE MangleSteps(hm, p, c, ReplaceStep(hm, p.payload))

HeaderMangleApply(p, c) == HeaderMangleApplyWith(config.header_mangle, p, c)

-----------------------------------------------------------------------------
(* FragmentationStrategy *)

\* Packet::update_lengths
update_lengths(p) == [p EXCEPT !.total_len = (p.hlen + Len(p.payload)) % U16]

\* a split that leaves the second fragment the sequence number of the first
split_at_payload_same_seq(p, offset) ==
    IF offset >= Len(p.payload)
    THEN [ok |-> FALSE, first |-> p, second |-> p]
    ELSE [ ok |-> TRUE,
           first |-> update_lengths([p EXCEPT !.payload = Prefix(p.payload, offset)]),
           second |-> update_lengths(
                        [p EXCEPT !.payload = Suffix(p.payload, offset),
                                  !.off = p.off + offset]) ]

\* Packet::split_at_payload: an offset at or past the end of the payload is
\* refused, every other offset gives the two fragments
split_at_payload(p, offset) ==
    IF offset >= Len(p.payload)
    THEN [ok |-> FALSE, first |-> p, second |-> p]
    ELSE [ ok |-> TRUE,
           first |-> update_lengths([p EXCEPT !.payload = Prefix(p.payload, offset)]),
           second |-> update_lengths(
                        [p EXCEPT !.payload = Suffix(p.payload, offset),
                                  !.seq = IF is_tcp(p) THEN wrapping_add(p.seq, offset) ELSE @,
                                  !.off = p.off + offset]) ]

get_fragment_size(fr, p) ==
    IF p.dport = 80 \/ p.sport = 80 THEN fr.http_size ELSE fr.https_size

find_sni_fragment_position(fr, p) ==
    IF ~fr.by_sni \/ Len(p.payload) < 44 THEN None
    ELSE LET hits == { i \in 0..(SatSub(Len(p.payload), 10) - 1) :
                         MatchAt(p.payload, i, << 0, 0, 0 >>) }
         IN  IF hits = {} THEN None
             ELSE Some(CHOOSE i \in hits : \A j \in hits : i <= j)

FragShouldApply(p, c) ==
    /\ ~p.is_fake
    /\ is_outbound(p)
    /\ is_tcp(p)
    /\ payload_len(p) # 0
    /\ LET is_http == p.dport = 80
           is_https == p.dport = 443
           hostname == IF is_http_request(p) THEN extract_http_host(p)
                       ELSE IF is_tls_client_hello(p) THEN extract_sni(p)
                       ELSE None
       IN  /\ is_http \/ is_https
           /\ is_http => is_http_request(p)
           /\ is_https => is_tls_client_hello(p)
           /\ (c.blacklist_enabled /\ hostname.some) => is_blacklisted(c, hostname.v)

\* the offset apply splits at: before the SNI if by_sni finds one, the
\* configured size otherwise
FragmentSize(fr, p, pos) ==
    IF fr.by_sni /\ pos.some THEN pos.v % U16 ELSE get_fragment_size(fr, p)

\* an apply that returns the fragments in order whatever reverse_order says
FragmentsInOrder(fr, halves, c) ==
    IF ~halves.ok
    THEN Failed(c)
    ELSE Applied(Replace(<< halves.first, halves.second >>),
                 Bump(c, "packets_fragmented", 1))

\* what apply returns for the outcome of split_at_payload
Fragments(fr, halves, c) ==
    IF ~halves.ok
    THEN Failed(c)
    ELSE Applied(Replace(IF fr.reverse_order
                         THEN << halves.second, halves.first >>
                         ELSE << halves.first, halves.second >>),
                 Bump(c, "packets_fragmented", 1))

FragApplyAt(fr, p, c, fragment_size) ==
    IF fragment_size >= payload_len(p)
    THEN Applied(Pass(p), c)
    ELSE Fragments(fr, split_at_payload(p, fragment_size), c)

\* an apply that drops the packet it cannot split
FragApplyDropOnFailure(p, c) ==
    IF FragmentSize(config.fragmentation, p,
                    find_sni_fragment_position(config.fragmentation, p))
           >= payload_len(p)
    THEN Applied(Drop, c)
    ELSE Fragments(config.fragmentation,
                   split_at_payload(p, get_fragment_size(config.fragmentation, p)), c)

FragApply(p, c) ==
    FragApplyAt(config.fragmentation, p, c,
                FragmentSize(config.fragmentation, p,
                             find_sni_fragment_position(config.fragmentation, p)))

-----------------------------------------------------------------------------
(* The two strategies of the pipeline's unit tests *)

MockDropShouldApply(p, c) == p.dport = 12345
MockDropApply(p, c) == Applied(Drop, c)
MockPassShouldApply(p, c) == TRUE
MockPassApply(p, c) == Applied(Pass(p), c)

-----------------------------------------------------------------------------
(* Box<dyn Strategy>: a strategy is its name; "id" is a history field, the  *)
(* number of strategies added before it.                                    *)

StrategyNames ==
    { "quic_block", "fake_packet", "dns_redirect", "header_mangle",
      "fragmentation", "mock_drop", "mock_pass" }

Strategy(name, id) == [name |-> name, id |-> id]

\* Strategy::priority
Priority(s) ==
    CASE s.name = "quic_block" -> 5
      [] s.name = "fake_packet" -> 10
      [] s.name = "dns_redirect" -> 20
      [] s.name = "header_mangle" -> 50
      [] s.name = "fragmentation" -> 80
      [] OTHER -> DefaultPriority

\* Strategy::is_enabled
is_enabled(s) == TRUE

\* Strategy::should_apply
ShouldApply(s, p, c) ==
    CASE s.name = "quic_block" -> QuicShouldApply(p, c)
      [] s.name = "fake_packet" -> FakeShouldApply(p, c)
      [] s.name = "dns_redirect" -> DnsShouldApply(p, c)
      [] s.name = "header_mangle" -> HeaderMangleShouldApply(p, c)
      [] s.name = "fragmentation" -> FragShouldApply(p, c)
      [] s.name = "mock_drop" -> MockDropShouldApply(p, c)
      [] s.name = "mock_pass" -> MockPassShouldApply(p, c)

\* Strategy::apply
Apply(s, p, c, at) ==
    CASE s.name = "quic_block" -> QuicApply(p, c)
      [] s.name = "fake_packet" -> FakeApply(p, c, at)
      [] s.name = "dns_redirect" -> DnsApply(p, c, at)
      [] s.name = "header_mangle" -> HeaderMangleApply(p, c)
      [] s.name = "fragmentation" -> FragApply(p, c)
      [] s.name = "mock_drop" -> MockDropApply(p, c)
      [] s.name = "mock_pass" -> MockPassApply(p, c)

-----------------------------------------------------------------------------
(* Pipeline *)

\* a sort step that puts s in front of the elements of its own key
InsertByKeyUnstable(sorted, s) ==
    LET n == Cardinality({ i \in 1..Len(sorted) : Priority(sorted[i]) < Priority(s) })
    IN  SubSeq(sorted, 1, n) \o << s >> \o SubSeq(sorted, n + 1, Len(sorted))

\* one step of the stable sort: s goes behind every element whose key is
\* not larger than its own
InsertByKey(sorted, s) ==
    LET n == Cardinality({ i \in 1..Len(sorted) : Priority(sorted[i]) <= Priority(s) })
    IN  SubSeq(sorted, 1, n) \o << s >> \o SubSeq(sorted, n + 1, Len(sorted))

\* Vec::sort_by_key(|s| s.priority()), a stable sort
RECURSIVE sort_by_key(_)
sort_by_key(v) ==
    IF v = << >> THEN << >>
    ELSE InsertByKey(sort_by_key(SubSeq(v, 1, Len(v) - 1)), v[Len(v)])

\* Pipeline::add_strategy, Pipeline::add_strategies
add_strategy(pipeline, s) == sort_by_key(Append(pipeline, s))
add_strategies(pipeline, ss) == sort_by_key(pipeline \o ss)

\* StrategyBuilder::from_config; the ids start at first
from_config(cfg, first) ==
    LET names ==
            (IF cfg.fake.enabled THEN << "fake_packet" >> ELSE << >>)
            \o (IF cfg.header_mangle.enabled THEN << "header_mangle" >> ELSE << >>)
            \o (IF cfg.fragmentation.enabled THEN << "fragmentation" >> ELSE << >>)
            \o (IF cfg.quic_block.enabled THEN << "quic_block" >> ELSE << >>)
            \o (IF cfg.dns.enabled /\ cfg.dns.ipv4_upstream.some
                THEN << "dns_redirect" >> ELSE << >>)
    IN  sort_by_key([i \in 1..Len(names) |-> Strategy(names[i], first + i - 1)])

\* the packets an action leaves in new_packets; the position k of the
\* strategy goes to their history
Stamp(ps, k) == [j \in 1..Len(ps) |-> [ps[j] EXCEPT !.hist = Append(@, k)]]

\* a stage that loses the packet its strategy did not ask for
KeptNot(new_packets, pkt) == new_packets

\* new_packets after a packet the strategy did not ask for:
\* "new_packets.push(pkt)"
Kept(new_packets, pkt) == Append(new_packets, pkt)

\* acc after apply has returned r for element i
Collected(k, i, acc, r) ==
    IF r.ok
    THEN [acc EXCEPT !.packets = @ \o Stamp(Expand(r.action), k),
                     !.ctx = r.ctx,
                     !.trace = Append(@, << k, i, r.action.tag >>)]
    ELSE [acc EXCEPT !.ok = FALSE, !.ctx = r.ctx,
                     !.trace = Append(@, << k, i, "Err" >>)]

\* acc after should_apply has said no for element i
Skipped(k, i, acc, pkt) ==
    [acc EXCEPT !.packets = Kept(@, pkt), !.trace = Append(@, << k, i, "skip" >>)]

\* the inner loop of Pipeline::process from element i on.  acc holds
\* new_packets, the context, whether apply has returned Err, and the history
\* of the should_apply calls: the position of the strategy, the element, and
\* what came of it ("skip" when should_apply said no)
RECURSIVE Stage(_, _, _, _, _, _)
Stage(k, s, packets, i, acc, at) ==
    IF i > Len(packets) \/ ~acc.ok THEN acc
    ELSE Stage(k, s, packets, i + 1,
               IF ShouldApply(s, packets[i], acc.ctx)
               THEN Collected(k, i, acc, Apply(s, packets[i], acc.ctx, at))
               ELSE Skipped(k, i, acc, packets[i]),
               at)

\* the outer loop of Pipeline::process from strategy k on
RECURSIVE Stages(_, _, _, _)
RECURSIVE AfterStage(_, _, _, _)
Stages(pipeline, k, acc, at) ==
    IF k > Len(pipeline) \/ ~acc.ok THEN acc
    ELSE IF ~is_enabled(pipeline[k]) THEN Stages(pipeline, k + 1, acc, at)
    ELSE AfterStage(pipeline, k,
                    Stage(k, pipeline[k], acc.packets, 1,
                          [acc EXCEPT !.packets = << >>], at),
                    at)

\* "packets = new_packets; if packets.is_empty() { break }"
AfterStage(pipeline, k, new, at) ==
    IF new.ok /\ new.packets = << >> THEN new
    ELSE Stages(pipeline, k + 1, new, at)

\* the end of process: the counter, and Ok(packets) or the error
Returned(done) ==
    IF done.ok
    THEN [done EXCEPT !.ctx = Bump(done.ctx, "packets_processed", 1)]
    ELSE [done EXCEPT !.packets = << >>]

\* a process that hands what the last strategy returned to the first one again
process_fed_back(pipeline, packet, c, at) ==
    LET done == Stages(pipeline, 1,
                       [ok |-> TRUE, packets |-> << packet >>, ctx |-> c,
                        trace |-> << >>], at)
    IN  Returned(IF done.ok /\ pipeline # << >>
                 THEN Stage(1, pipeline[1], done.packets, 1,
                            [done EXCEPT !.packets = << >>], at)
                 ELSE done)

\* Pipeline::process: Ok(packets) or Err, and the context it leaves
process(pipeline, packet, c, at) ==
    Returned(Stages(pipeline, 1,
                    [ok |-> TRUE, packets |-> << packet >>, ctx |-> c,
                     trace |-> << >>], at))

-----------------------------------------------------------------------------
(* The configurations and the packets the specifications draw from *)

Client == "192.168.1.100"
Server == "93.184.216.34"
Resolver == "77.88.8.8"

FakeOff ==
    [ enabled |-> FALSE, ttl |-> None, auto_ttl |-> NoAutoTtl, min_ttl_hops |-> None,
      wrong_checksum |-> FALSE, wrong_seq |-> FALSE, resend_count |-> 1 ]
\* a fixed TTL and all three kinds of decoy
FakeFixed ==
    [ FakeOff EXCEPT !.enabled = TRUE, !.ttl = Some(3), !.wrong_checksum = TRUE,
                     !.wrong_seq = TRUE ]
\* the TTL taken from the hop table, two rounds
FakeAuto ==
    [ FakeOff EXCEPT !.enabled = TRUE, !.auto_ttl = AutoTtl(1, 4, 10),
                     !.min_ttl_hops = Some(3), !.resend_count = 2 ]

MangleOff == [enabled |-> FALSE, host_replace |-> FALSE, host_mix_case |-> FALSE]
MangleOn == [enabled |-> TRUE, host_replace |-> TRUE, host_mix_case |-> TRUE]

FragOff ==
    [ enabled |-> FALSE, http_size |-> 2, https_size |-> 2, by_sni |-> FALSE,
      reverse_order |-> FALSE ]
FragReverse == [FragOff EXCEPT !.enabled = TRUE, !.reverse_order = TRUE]
\* an HTTP fragment size no request of the model reaches
FragWide == [FragOff EXCEPT !.enabled = TRUE, !.http_size = 100, !.by_sni = TRUE]

DnsOff == [enabled |-> FALSE, ipv4_upstream |-> None, ipv4_port |-> None]
DnsOn == [enabled |-> TRUE, ipv4_upstream |-> Some(Resolver), ipv4_port |-> None]

Config(fake, header_mangle, fragmentation, quic_block, dns) ==
    [ fake |-> fake, header_mangle |-> header_mangle, fragmentation |-> fragmentation,
      quic_block |-> [enabled |-> quic_block], dns |-> dns ]

\* Config::validate: TRUE for Ok
validate(c) ==
    IF c.dns.enabled /\ c.dns.ipv4_port.some /\ c.dns.ipv4_port.v = 0 THEN FALSE
    ELSE IF /\ c.fragmentation.enabled
            /\ \/ c.fragmentation.http_size = 0 /\ c.fragmentation.https_size = 0
               \/ c.fragmentation.http_size > U16 - 1
               \/ c.fragmentation.https_size > U16 - 1
         THEN FALSE
    ELSE IF c.fake.ttl.some /\ c.fake.ttl.v = 0 THEN FALSE
    ELSE TRUE

Configs ==
    { Config(FakeOff, MangleOff, FragOff, FALSE, DnsOff),
      Config(FakeFixed, MangleOn, FragReverse, TRUE, DnsOn),
      Config(FakeAuto, MangleOff, FragWide, FALSE, DnsOff),
      Config(FakeAuto, MangleOn, FragReverse, TRUE, DnsOn),
      Config(FakeOff, MangleOn, FragWide, TRUE, DnsOn) }

HttpRequest ==
    MkPacket("out", "tcp", Client, 5000, Server, 80, {"ack", "psh"}, 64, 1000,
             HttpRequestPayload)
TlsHello ==
    MkPacket("out", "tcp", Client, 5000, Server, 443, {"ack", "psh"}, 64, 1000,
             TlsHelloPayload)
BareAck ==
    MkPacket("out", "tcp", Client, 5000, Server, 80, {"ack"}, 64, 1000, << >>)
DnsQuery ==
    MkPacket("out", "udp", Client, 5000, Server, 53, {}, 64, 0, DnsQueryPayload)
QuicInitial ==
    MkPacket("out", "udp", Client, 5000, Server, 443, {}, 64, 0, QuicInitialPayload)
\* the server's SYN-ACK of the HTTP flow, as it arrives with TTL ttl
SynAck(ttl) ==
    MkPacket("in", "tcp", Server, 80, Client, 5000, {"syn", "ack"}, ttl, 7000, << >>)
HttpResponse ==
    MkPacket("in", "tcp", Server, 80, Client, 5000, {"ack", "psh"}, 55, 7001,
             << 72, 84, 84, 80 >>)

ClientPort == HttpRequest.sport

\* 55 is nine hops from 64; 200 is in neither range auto_ttl_calculate knows
ArrivalTtls == { 55, 200 }

Outbound == { HttpRequest, TlsHello, BareAck, DnsQuery, QuicInitial }
Inbound == { SynAck(t) : t \in ArrivalTtls } \cup { HttpResponse }

\* a CapturedPacket the parser refuses carries no packet
NoPacket == [malformed |-> TRUE, packet |-> BareAck]
Parsed(p) == [malformed |-> FALSE, packet |-> p]

NoResult ==
    [ op |-> "none", input |-> BareAck, at |-> 0, ok |-> TRUE, packets |-> << >>,
      trace |-> << >>, ret |-> None ]

NoThreads ==
    [table |-> "none", pc |-> "idle", held |-> << >>, values |-> {}, removed |-> << >>]

\* ServiceController::new; nothing started and no engine process
NoService ==
    [ status |-> "Stopped", process_id |-> None, result_rx |-> None, channels |-> 0,
      workers |-> {}, sent |-> << >>, lost |-> {}, engines |-> 0 ]

\* no driver is open; and the driver WinDivertDriver::open returns
NoDriver == [is_open |-> FALSE, handle |-> FALSE]
OpenDriver == [is_open |-> TRUE, handle |-> TRUE]

\* WinDivertDriver::close, which returns Ok whatever the driver's state
close(d) == IF d.is_open THEN [is_open |-> FALSE, handle |-> FALSE] ELSE d

\* a Drop that leaves the handle as it is
drop_leaks(d) == d

\* Drop for WinDivertDriver
drop(d) == IF d.is_open THEN close(d) ELSE d

-----------------------------------------------------------------------------
(* PipeSpec: a pipeline under construction *)

PipeInit ==
    /\ layout = "crates"
    /\ config \in Configs
    /\ strategies = << >>
    /\ next_id = 0
    /\ ctx = NewContext
    /\ now = 0
    /\ pc = "build"
    /\ running = TRUE
    /\ captured = NoPacket
    /\ outq = << >>
    /\ sendlog = << >>
    /\ result = NoResult
    /\ observed = << >>
    /\ recorded = << >>
    /\ thr = NoThreads
    /\ driver = NoDriver
    /\ service = NoService

AddStrategy(name) ==
    /\ Len(strategies) < MaxStrategies
    /\ strategies' = add_strategy(strategies, Strategy(name, next_id))
    /\ next_id' = next_id + 1
    /\ UNCHANGED << driver, service,
                    layout, config, ctx, now, pc, running, captured, outq, sendlog,
                    result, observed, recorded, thr >>

AddStrategies ==
    LET built == from_config(config, next_id)
    IN  /\ built # << >>
        /\ Len(strategies) + Len(built) <= MaxStrategies + 1
        /\ strategies' = add_strategies(strategies, built)
        /\ next_id' = next_id + Len(built)
        /\ UNCHANGED << driver, service, layout, config, ctx, now, pc, running, captured, outq,
                        sendlog, result, observed, recorded, thr >>

PipeNext ==
    \/ \E name \in StrategyNames : AddStrategy(name)
    \/ AddStrategies

PipeSpec == PipeInit /\ [][PipeNext]_vars

\* C5: after any sequence of add_strategy / add_strategies calls the list is
\* sorted ascending by priority, and of two strategies of equal priority the
\* one added first stands first.
C5_SortedStable ==
    \A i, j \in 1..Len(strategies) :
        i < j =>
            /\ Priority(strategies[i]) <= Priority(strategies[j])
            /\ Priority(strategies[i]) = Priority(strategies[j])
                   => strategies[i].id < strategies[j].id

\* two strategies of one priority, and a third one added after both that
\* the sort has moved in front of them
C5_Witness ==
    \E i, j, k \in 1..Len(strategies) :
        /\ k < i /\ i < j
        /\ Priority(strategies[i]) = Priority(strategies[j])
        /\ strategies[k].id > strategies[j].id

-----------------------------------------------------------------------------
(* LibSpec: a client of the library that builds a pipeline from a            *)
(* configuration, records SYN-ACKs, looks TTLs up and processes packets      *)
(* while time passes.                                                        *)

\* the key get_connection_ttl computes for an outbound packet
FlowKey(p) == ConnKey(p.daddr, p.dport, p.saddr, p.sport)

\* the pipelines of a configuration: what from_config builds, and for the
\* empty configuration also the one-strategy pipelines of the unit tests
Pipelines(cfg) ==
    { add_strategies(<< >>, from_config(cfg, 0)) }
    \cup (IF from_config(cfg, 0) = << >>
          THEN { add_strategy(<< >>, Strategy(name, 0)) : name \in {"mock_drop", "mock_pass"} }
          ELSE {})

LibInit ==
    /\ layout \in {"crates", "v2"}
    /\ config \in Configs
    /\ strategies \in Pipelines(config)
    /\ next_id = Len(strategies)
    /\ ctx = NewContext
    /\ now = 0
    /\ pc = "lib"
    /\ running = TRUE
    /\ captured = NoPacket
    /\ outq = << >>
    /\ sendlog = << >>
    /\ result = NoResult
    /\ observed = << >>
    /\ recorded = << >>
    /\ thr = NoThreads
    /\ driver = NoDriver
    /\ service = NoService

\* Pipeline::process(p, &mut ctx)
LibProcessed(p, r) ==
    /\ ctx' = r.ctx
    /\ result' = [ op |-> "process", input |-> p, at |-> now, ok |-> r.ok,
                   packets |-> r.packets, trace |-> r.trace, ret |-> None ]

LibProcess(p) ==
    /\ ctx.stats.packets_processed < MaxCalls
    /\ LibProcessed(p, process(strategies, p, ctx, now))
    /\ UNCHANGED << driver, service,
                    layout, config, strategies, next_id, now, pc, running, captured,
                    outq, sendlog, observed, recorded, thr >>

\* Context::record_connection_ttl(p)
LibRecord(p) ==
    /\ ctx' = record_connection_ttl(ctx, p, now)
    /\ recorded' = IF is_syn_ack(p)
                   THEN TableInsert(recorded, ConnKey(p.saddr, p.sport, p.daddr, p.dport),
                                    [ttl |-> p.ttl, at |-> now])
                   ELSE recorded
    /\ result' = [NoResult EXCEPT !.op = "record", !.input = p, !.at = now]
    /\ UNCHANGED << driver, service,
                    layout, config, strategies, next_id, now, pc, running, captured,
                    outq, sendlog, observed, thr >>

\* Context::get_connection_ttl(p)
LibLookup(p) ==
    /\ LET got == get_connection_ttl(ctx, p, now)
       IN  /\ ctx' = [ctx EXCEPT !.tcp_tracker = got.table]
           /\ result' = [NoResult EXCEPT !.op = "lookup", !.input = p, !.at = now,
                                         !.ret = got.ret]
    /\ UNCHANGED << driver, service,
                    layout, config, strategies, next_id, now, pc, running, captured,
                    outq, sendlog, observed, recorded, thr >>

\* the clock moves on by d seconds
Tick(d) ==
    /\ now + d <= MaxTime
    /\ now' = now + d
    /\ UNCHANGED << driver, service,
                    layout, config, strategies, next_id, ctx, pc, running, captured,
                    outq, sendlog, result, observed, recorded, thr >>

LibNext ==
    \/ \E p \in Outbound \cup Inbound : LibProcess(p)
    \/ \E p \in Inbound : LibRecord(p)
    \/ \E p \in {HttpRequest, TlsHello} : LibLookup(p)
    \/ \E d \in {20, 40} : Tick(d)

LibSpec == LibInit /\ [][LibNext]_vars

-----------------------------------------------------------------------------
(* Properties of Pipeline::process, stated on the last call's result *)

Processed == result.op = "process"

\* the entries of the trace where the named strategy's apply ran
AppliedBy(name) ==
    { n \in 1..Len(result.trace) :
          /\ strategies[result.trace[n][1]].name = name
          /\ result.trace[n][3] # "skip" }

NoneApplies(p) ==
    \A k \in 1..Len(strategies) : ~ShouldApply(strategies[k], p, ctx)

\* C1: when every strategy's should_apply is false on p, process(p) returns
\* exactly the one-element list [p], the packet itself with nothing changed.
C1_Untouched ==
    (Processed /\ NoneApplies(result.input))
        => result.ok /\ result.packets = << result.input >>

\* a pipeline of several strategies, none of which asks for the packet
C1_Witness ==
    /\ Processed
    /\ Len(strategies) >= 3
    /\ NoneApplies(result.input)
    /\ Len(result.trace) = Len(strategies)
    /\ result.packets = << result.input >>

DecoysFirst ==
    \A i, j \in 1..Len(result.packets) :
        (result.packets[i].origin = "decoy" /\ result.packets[j].origin = "real")
            => i < j

\* calculate_ttl gave up on the last call's packet: there is no fixed TTL,
\* auto-TTL is on, the flow has a fresh hop record, and auto_ttl_calculate
\* finds no TTL for it
GaveUp ==
    LET fk == config.fake
        key == FlowKey(result.input)
    IN  /\ ~fk.ttl.some
        /\ fk.auto_ttl.some
        /\ key \in DOMAIN recorded
        /\ result.at - recorded[key].at < TcpTimeout
        /\ ~auto_ttl_calculate(fk, recorded[key].ttl).some

\* C2 as stated: whenever the fake-packet strategy applies it returns
\* InjectBefore(decoys, original), and in the list process returns every decoy
\* precedes the original and every packet derived from it.
C2_AlwaysInjectBefore ==
    Processed =>
        /\ \A n \in AppliedBy("fake_packet") : result.trace[n][3] = "InjectBefore"
        /\ DecoysFirst

\* C2: when the fake-packet strategy applies it returns InjectBefore(decoys,
\* original), except that it returns Pass(original) when the TTL calculation
\* gives up; in the list process returns every decoy precedes the original
\* and every packet derived from it.
C2_InjectBeforeUnlessGaveUp ==
    Processed =>
        /\ \A n \in AppliedBy("fake_packet") :
               result.trace[n][3] = IF GaveUp THEN "Pass" ELSE "InjectBefore"
        /\ DecoysFirst

\* decoys were injected and a later strategy has split the original in two
C2_Witness ==
    /\ Processed
    /\ \E n \in AppliedBy("fake_packet") : result.trace[n][3] = "InjectBefore"
    /\ \E i, j, d \in 1..Len(result.packets) :
           /\ result.packets[d].origin = "decoy"
           /\ i # j
           /\ result.packets[i].origin = "real" /\ result.packets[j].origin = "real"
           /\ result.packets[i].off # result.packets[j].off

\* C3: every decoy the fake-packet strategy emits has is_fake = true and the
\* fragmentation strategy's should_apply is false on it, so no decoy in the
\* list process returns is a fragment.
C3_DecoysNeverFragmented ==
    Processed =>
        \A i \in 1..Len(result.packets) :
            result.packets[i].origin = "decoy" =>
                /\ result.packets[i].is_fake
                /\ ~FragShouldApply(result.packets[i], ctx)
                /\ "Replace" \notin { result.trace[n][3] : n \in AppliedBy("fragmentation") }
                       \/ Len(result.packets[i].hist) = 1

StrictlyIncreasing(h) == \A a, b \in 1..Len(h) : a < b => h[a] < h[b]

\* C4: within one call to process a strategy is invoked at most once per
\* element, and no packet a strategy produced is fed back into that strategy
\* or an earlier one.
C4_OncePerElement ==
    Processed =>
        /\ \A m, n \in 1..Len(result.trace) :
               m < n =>
                   \/ result.trace[m][1] < result.trace[n][1]
                   \/ /\ result.trace[m][1] = result.trace[n][1]
                      /\ result.trace[m][2] < result.trace[n][2]
        /\ \A i \in 1..Len(result.packets) : StrictlyIncreasing(result.packets[i].hist)

\* an earlier strategy made several packets of one, and a later strategy's
\* apply ran on more than one of them
C4_Witness ==
    /\ Processed
    /\ \E m, n \in 1..Len(result.trace) :
           /\ result.trace[m][1] = result.trace[n][1]
           /\ result.trace[m][1] > 1
           /\ result.trace[m][2] # result.trace[n][2]
           /\ result.trace[m][3] # "skip" /\ result.trace[n][3] # "skip"

\* C8: after record(k, ttl) and an elapsed time D, lookup(k) returns
\* Some(ttl) if D < timeout and None otherwise.
C8_Freshness ==
    (result.op = "lookup" /\ FlowKey(result.input) \in DOMAIN recorded) =>
        LET r == recorded[FlowKey(result.input)]
        IN  result.ret = IF result.at - r.at < TcpTimeout THEN Some(r.ttl) ELSE None

\* a lookup exactly the timeout after the record, which finds nothing
C8_Witness ==
    /\ result.op = "lookup"
    /\ FlowKey(result.input) \in DOMAIN recorded
    /\ result.at - recorded[FlowKey(result.input)].at = TcpTimeout
    /\ result.ret = None

-----------------------------------------------------------------------------
(* Spec: the orchestration loop of the command line, run_packet_loop *)

\* what driver.recv() hands the loop: the outbound packets, the server's
\* SYN-ACK, and a packet the parser refuses
Captured == { Parsed(p) : p \in Outbound \cup { SynAck(55) } } \cup { NoPacket }

\* a loop that visits the list from its last element
IntoIterReversed(packets) == [i \in 1..Len(packets) |-> packets[Len(packets) + 1 - i]]

\* the order in which "for pkt in output_packets" visits the list
IntoIter(packets) == packets

Init ==
    /\ layout \in {"crates", "v2"}
    /\ config \in Configs
    /\ strategies = add_strategies(<< >>, from_config(config, 0))
    /\ next_id = Len(strategies)
    /\ ctx = NewContext
    /\ now = 0
    /\ pc = "recv"
    /\ running = TRUE
    /\ captured = NoPacket
    /\ outq = << >>
    /\ sendlog = << >>
    /\ result = NoResult
    /\ observed = << >>
    /\ recorded = << >>
    /\ thr = NoThreads
    /\ driver = OpenDriver
    /\ service = NoService

\* the loop's match on what process returned for the parsed packet
Dispatched(packet, r) ==
    /\ outq' = IF r.ok THEN IntoIter(r.packets) ELSE << packet >>
    /\ ctx' = r.ctx
    /\ result' = [ op |-> "process", input |-> packet, at |-> now, ok |-> r.ok,
                   packets |-> r.packets, trace |-> r.trace, ret |-> None ]
    /\ observed' =
           IF is_inbound(packet) /\ is_syn_ack(packet)
           THEN TableInsert(observed,
                            ConnKey(packet.saddr, packet.sport, packet.daddr, packet.dport),
                            [ttl |-> packet.ttl, at |-> now])
           ELSE observed

\* "while running.load()" finds the flag set and the loop calls
\* driver.recv(), which blocks until the driver has something to return
Enter ==
    /\ pc = "recv"
    /\ running
    /\ pc' = "wait"
    /\ UNCHANGED << driver, service, layout, config, strategies, next_id, ctx, now, running,
                    captured, outq, sendlog, result, observed, recorded, thr >>

\* driver.recv() returns Ok(c): the packet is parsed and processed, and what
\* is to be sent is queued.  A packet the parser refuses and a packet the
\* pipeline fails on are queued as captured.
Recv(c) ==
    /\ pc = "wait"
    /\ ctx.stats.packets_processed < MaxCalls
    /\ captured' = c
    /\ sendlog' = << >>
    /\ IF c.malformed
       THEN /\ outq' = << c.packet >>
            /\ result' = [NoResult EXCEPT !.op = "raw", !.at = now]
            /\ UNCHANGED << ctx, observed >>
       ELSE Dispatched(c.packet, process(strategies, c.packet, ctx, now))
    /\ pc' = IF outq' = << >> THEN "recv" ELSE "send"
    /\ UNCHANGED << driver, service,
                    layout, config, strategies, next_id, now, running, recorded, thr >>

\* driver.recv() returns Err: logged, and the loop goes on
RecvError ==
    /\ pc = "wait"
    /\ pc' = "recv"
    /\ captured' = NoPacket
    /\ sendlog' = << >>
    /\ result' = [NoResult EXCEPT !.op = "recv_error", !.at = now]
    /\ UNCHANGED << driver, service, layout, config, strategies, next_id, ctx, now, running, outq,
                    observed, recorded, thr >>

\* driver.send of the next queued packet; a failure is logged and the loop
\* goes on to the next one
Send(ok) ==
    /\ pc = "send"
    /\ outq # << >>
    /\ sendlog' = Append(sendlog, [pkt |-> Head(outq), ok |-> ok])
    /\ outq' = Tail(outq)
    /\ pc' = IF outq' = << >> THEN "recv" ELSE "send"
    /\ UNCHANGED << driver, service,
                    layout, config, strategies, next_id, ctx, now, running, captured,
                    result, observed, recorded, thr >>

\* the ctrl-c handler
CtrlC ==
    /\ running
    /\ running' = FALSE
    /\ UNCHANGED << driver, service,
                    layout, config, strategies, next_id, ctx, now, pc, captured, outq,
                    sendlog, result, observed, recorded, thr >>

\* the loop condition fails; driver.close()
Close ==
    /\ pc = "recv"
    /\ ~running
    /\ pc' = "closed"
    /\ driver' = close(driver)
    /\ UNCHANGED << service, layout, config, strategies, next_id, ctx, now, running, captured,
                    outq, sendlog, result, observed, recorded, thr >>

\* run_packet_loop returns and the driver goes out of scope
Return ==
    /\ pc = "closed"
    /\ pc' = "returned"
    /\ driver' = drop(driver)
    /\ UNCHANGED << service, layout, config, strategies, next_id, ctx, now, running, captured,
                    outq, sendlog, result, observed, recorded, thr >>

\* a panic in the body of the loop unwinds through the scope of the driver
Unwind ==
    /\ pc \in {"wait", "send"}
    /\ pc' = "unwound"
    /\ driver' = drop(driver)
    /\ UNCHANGED << service, layout, config, strategies, next_id, ctx, now, running, captured,
                    outq, sendlog, result, observed, recorded, thr >>

Next ==
    \/ Enter
    \/ \E c \in Captured : Recv(c)
    \/ RecvError
    \/ \E ok \in BOOLEAN : Send(ok)
    \/ CtrlC
    \/ Close
    \/ Return
    \/ Unwind
    \/ \E d \in {40} : Tick(d)

Spec == Init /\ [][Next]_vars

-----------------------------------------------------------------------------
(* Properties of the orchestration loop *)

\* the iteration that processed the captured packet has made all its sends
IterationDone == pc = "recv" /\ result.op = "process"

\* quic_block has dropped the packet, as it is there to do
QuicDropped == \E n \in AppliedBy("quic_block") : result.trace[n][3] = "Drop"

\* the send calls of the iteration carry the whole of the captured packet:
\* at least one of them is the packet or a part of it, and every byte of
\* its payload lies in one of them
RealPacketSent ==
    LET real == { n \in 1..Len(sendlog) : sendlog[n].pkt.origin = "real" }
    IN  /\ real # {}
        /\ \A b \in 1..Len(captured.packet.payload) :
               \E n \in real :
                   /\ sendlog[n].pkt.off < b
                   /\ b <= sendlog[n].pkt.off + Len(sendlog[n].pkt.payload)

\* C6: a strategy that cannot do its work on a packet passes it on, and no
\* strategy's failure takes the real packet out of what process returns and
\* the loop sends: unless quic_block dropped it, no apply has returned an
\* error or a Drop, and the loop has called send on the whole packet.
C6_NeverDropsOnFailure ==
    (IterationDone /\ ~QuicDropped) =>
        /\ \A n \in 1..Len(result.trace) : result.trace[n][3] \notin {"Err", "Drop"}
        /\ RealPacketSent

\* fragmentation asked for a request shorter than the fragment size, passed
\* it on whole, and the loop has sent it
C6_Witness ==
    /\ IterationDone
    /\ \E n \in AppliedBy("fragmentation") :
           /\ result.trace[n][3] = "Pass"
           /\ Len(result.packets[result.trace[n][2]].payload)
                  <= get_fragment_size(config.fragmentation, result.input)
    /\ \E n \in 1..Len(sendlog) :
           /\ sendlog[n].pkt.origin = "real"
           /\ sendlog[n].pkt.payload = result.input.payload

\* C7: the loop calls send on the packets process returned in exactly the
\* order of the list, whether or not the sends succeed.
C7_SendOrder ==
    (result.op = "process" /\ result.ok) =>
        /\ Len(sendlog) <= Len(result.packets)
        /\ \A n \in 1..Len(sendlog) : sendlog[n].pkt = result.packets[n]
        /\ pc = "recv" => Len(sendlog) = Len(result.packets)

\* an iteration with decoys and fragments, one of whose sends has failed
C7_Witness ==
    /\ IterationDone
    /\ Len(sendlog) >= 4
    /\ \E m, n \in 1..Len(sendlog) :
           /\ m < n
           /\ ~sendlog[m].ok /\ sendlog[n].ok
           /\ sendlog[m].pkt # sendlog[n].pkt

\* C10: once the loop has received an inbound SYN-ACK with TTL t on a flow,
\* a lookup for an outbound packet of that flow within the timeout finds t.
C10_SynAckRecorded ==
    \A key \in DOMAIN observed :
        now - observed[key].at < TcpTimeout =>
            TcpGetTtl(ctx.tcp_tracker, key, now, TcpTimeout).ret = Some(observed[key].ttl)

-----------------------------------------------------------------------------
(* ConcSpec: one thread looks a key up in a tracking table while another    *)
(* records under the same key.  The table is a DashMap: the Ref that get    *)
(* returns holds the shard's lock until it is dropped, and insert and       *)
(* remove are atomic.                                                       *)

ConcTcp == thr.table = "tcp"
ConcTable == IF ConcTcp THEN ctx.tcp_tracker ELSE ctx.dns_tracker
ConcKey == IF ConcTcp THEN FlowKey(HttpRequest) ELSE ClientPort
ConcTimeout == IF ConcTcp THEN TcpTimeout ELSE DnsTimeout
ConcValues == IF ConcTcp THEN ArrivalTtls ELSE { << Server, 53 >>, << Resolver, 53 >> }
EntryValue(e) == IF ConcTcp THEN e.ttl ELSE << e.ip, e.port >>

ConcInit ==
    /\ layout = "crates"
    /\ config \in { c \in Configs : ~c.fake.enabled /\ ~c.header_mangle.enabled }
    /\ strategies = << >>
    /\ next_id = 0
    /\ ctx = NewContext
    /\ now = 0
    /\ pc = "threads"
    /\ running = TRUE
    /\ captured = NoPacket
    /\ outq = << >>
    /\ sendlog = << >>
    /\ result = NoResult
    /\ observed = << >>
    /\ recorded = << >>
    /\ thr \in { [NoThreads EXCEPT !.table = t] : t \in {"tcp", "dns"} }
    /\ driver = NoDriver
    /\ service = NoService

\* the recording thread: TcpConnTracker::record / DnsConnTracker::track_query
ConcRecord(v) ==
    /\ thr.pc # "holding"
    /\ ctx' = IF ConcTcp
              THEN record_connection_ttl(ctx, SynAck(v), now)
              ELSE dns_track_query(ctx, ClientPort, v[1], v[2], now)
    /\ recorded' = TableInsert(recorded, ConcKey, [ttl |-> v, at |-> now])
    /\ thr' = [thr EXCEPT !.values = @ \cup {v}]
    /\ UNCHANGED << driver, service,
                    layout, config, strategies, next_id, now, pc, running, captured,
                    outq, sendlog, result, observed >>

\* the looking-up thread: "if let Some(info) = self.connections.get(&key)"
LookupGet ==
    /\ thr.pc = "idle"
    /\ IF ConcKey \in DOMAIN ConcTable
       THEN /\ thr' = [thr EXCEPT !.pc = "holding", !.held = << ConcTable[ConcKey] >>]
            /\ UNCHANGED result
       ELSE /\ result' = [NoResult EXCEPT !.op = "lookup", !.at = now]
            /\ UNCHANGED thr
    /\ UNCHANGED << driver, service, layout, config, strategies, next_id, ctx, now, pc, running,
                    captured, outq, sendlog, observed, recorded >>

\* "if info.created.elapsed() < self.timeout { return Some(..) } else { drop(info)"
LookupCheck ==
    /\ thr.pc = "holding"
    /\ IF now - thr.held[1].created < ConcTimeout
       THEN /\ result' = [NoResult EXCEPT !.op = "lookup", !.at = now,
                                          !.ret = Some(EntryValue(thr.held[1]))]
            /\ thr' = [thr EXCEPT !.pc = "idle", !.held = << >>]
       ELSE /\ thr' = [thr EXCEPT !.pc = "dropped", !.held = << >>]
            /\ UNCHANGED result
    /\ UNCHANGED << driver, service, layout, config, strategies, next_id, ctx, now, pc, running,
                    captured, outq, sendlog, observed, recorded >>

\* "self.connections.remove(&key); } None"; what it removed goes to the
\* history: the entry's creation time and the time of the removal
LookupRemove ==
    /\ thr.pc = "dropped"
    /\ ctx' = [ctx EXCEPT !.tcp_tracker = IF ConcTcp THEN TableRemove(@, ConcKey) ELSE @,
                          !.dns_tracker = IF ConcTcp THEN @ ELSE TableRemove(@, ConcKey)]
    /\ thr' = [thr EXCEPT !.pc = "idle",
                          !.removed = IF ConcKey \in DOMAIN ConcTable
                                      THEN << [created |-> ConcTable[ConcKey].created,
                                               at |-> now] >>
                                      ELSE << >>]
    /\ result' = [NoResult EXCEPT !.op = "lookup", !.at = now]
    /\ UNCHANGED << driver, service,
                    layout, config, strategies, next_id, now, pc, running, captured,
                    outq, sendlog, observed, recorded >>

ConcNext ==
    \/ \E v \in ConcValues : ConcRecord(v)
    \/ LookupGet
    \/ LookupCheck
    \/ LookupRemove
    \/ \E d \in {5, 30} : Tick(d)

ConcSpec == ConcInit /\ [][ConcNext]_vars

\* C9: under every interleaving of a record with a lookup on the same key,
\* the lookup returns None or a value that was recorded for the key, and the
\* entry a lookup removes is never one recorded less than the timeout ago.
C9_ConcurrentLookupSafe ==
    /\ (result.op = "lookup" /\ result.ret.some) => result.ret.v \in thr.values
    /\ \A n \in 1..Len(thr.removed) :
           thr.removed[n].at - thr.removed[n].created >= ConcTimeout

-----------------------------------------------------------------------------
(* Sweeping of the tracking tables *)

\* C11: while the engine runs, an entry of a tracking table that has expired
\* is swept: whether sweep runs on a timer of the configured interval or
\* inline with the packets, an iteration of the loop that started when an
\* entry was already older than the timeout and the interval together does
\* not leave that entry in the table.
C11_ExpiredEntrySwept ==
    IterationDone =>
        \A port \in DOMAIN ctx.dns_tracker :
            result.at - ctx.dns_tracker[port].created < DnsTimeout + CleanupInterval

-----------------------------------------------------------------------------
(* DnsSpec: DNS traffic through a pipeline with dns redirection configured. *)
(* Queries leave from two client ports for two resolvers, the upstream's    *)
(* response comes back, and an outbound packet to port 53 that is no query  *)
(* passes by.  "recorded" keeps, per client port, the destination the last  *)
(* query of that port was captured with.                                    *)

OtherResolver == "9.9.9.9"

\* a DNS response header: flags 0x8180, qdcount 1, ancount 1
DnsResponsePayload == << 0, 7, 129, 128, 0, 1, 0, 1, 0, 0, 0, 0, 3 >>

DnsQueryFrom(port, dst) ==
    MkPacket("out", "udp", Client, port, dst, 53, {}, 64, 0, DnsQueryPayload)

\* the upstream resolver's response to the query of a client port
DnsResponseTo(port) ==
    MkPacket("in", "udp", Resolver, 53, Client, port, {}, 55, 0, DnsResponsePayload)

\* an outbound packet to port 53 that is_dns_query refuses
DnsNotQuery ==
    MkPacket("out", "udp", Client, ClientPort, Server, 53, {}, 64, 0, DnsResponsePayload)

DnsPackets ==
    { DnsQueryFrom(ClientPort, Server), DnsQueryFrom(ClientPort, OtherResolver),
      DnsQueryFrom(ClientPort + 1, Server), DnsResponseTo(ClientPort), DnsNotQuery }

DnsInit == LibInit /\ config.dns.enabled

\* Pipeline::process on a packet of the DNS traffic
DnsProcess(p) ==
    /\ ctx.stats.packets_processed < MaxCalls
    /\ LibProcessed(p, process(strategies, p, ctx, now))
    /\ recorded' = IF is_outbound(p) /\ is_dns_query(p.payload)
                   THEN TableInsert(recorded, p.sport,
                                    [ip |-> p.daddr, port |-> p.dport, at |-> now])
                   ELSE recorded
    /\ UNCHANGED << driver, service,
                    layout, config, strategies, next_id, now, pc, running, captured,
                    outq, sendlog, observed, thr >>

DnsNext ==
    \/ \E p \in DnsPackets : DnsProcess(p)
    \/ \E d \in {40} : Tick(d)

DnsSpec == DnsInit /\ [][DnsNext]_vars

\* dns redirection has redirected the packet just processed
Redirected ==
    /\ Processed
    /\ AppliedBy("dns_redirect") # {}
    /\ is_dns_query(result.input.payload)

\* C12: after dns redirection has applied to a query, the query table holds
\* under the query's source port the destination address and port the query
\* was captured with: one entry, the one of the port's last query; and the
\* table has no entry under a port no query left from.
C12_OneEntryPerQuery ==
    Redirected =>
        /\ result.input.sport \in DOMAIN ctx.dns_tracker
        /\ ctx.dns_tracker[result.input.sport] =
               [ ip |-> result.input.daddr, port |-> result.input.dport,
                 created |-> result.at ]
        /\ DOMAIN ctx.dns_tracker \subseteq DOMAIN recorded

\* a second query from a port whose first query went to another resolver
C12_Witness ==
    /\ Redirected
    /\ ctx.stats.dns_redirected = 2
    /\ Cardinality(DOMAIN ctx.dns_tracker) = 1
    /\ result.input.daddr = OtherResolver
    /\ result.packets[1].daddr = Resolver

\* C13: when, after a query from client port P has been redirected, the
\* inbound response addressed to P arrives within the timeout, its source
\* address and port are rewritten to the destination recorded for P and P's
\* entry is removed from the query table.
C13_ResponseRewritten ==
    ( /\ Processed
      /\ is_inbound(result.input) /\ is_udp(result.input)
      /\ result.input.sport = DnsRedirectStrategy(config.dns).port
      /\ result.input.dport \in DOMAIN recorded
      /\ result.at - recorded[result.input.dport].at < DnsTimeout )
        => /\ Len(result.packets) = 1
           /\ result.packets[1].saddr = recorded[result.input.dport].ip
           /\ result.packets[1].sport = recorded[result.input.dport].port
           /\ result.input.dport \notin DOMAIN ctx.dns_tracker

-----------------------------------------------------------------------------
(* FnSpec: the functions of the packet and of the strategies, each called   *)
(* on inputs drawn from small sets; "result" holds the call and what it     *)
(* returned.                                                                *)

\* the payload lengths and the offsets the split is tried with
MaxPayload == 4

\* a payload of n bytes, each telling its position
Bytes(n) == [i \in 1..n |-> 64 + i]

\* sequence numbers: a small one, one whose low half carries, and one that
\* wraps around 2^32
SeqNumbers == { Word(0, 1000), Word(7, U16 - 2), Word(U16 - 1, U16 - 2) }

SplitInputs ==
    { [MkPacket("out", proto, Client, ClientPort, Server, 443, {"ack", "psh"}, 64, 0,
                Bytes(n)) EXCEPT !.seq = s] :
          proto \in {"tcp", "udp"}, n \in 1..MaxPayload, s \in SeqNumbers }

FnInit == LibInit /\ config = Config(FakeOff, MangleOff, FragOff, FALSE, DnsOff)

\* one call, made in the initial state
FnCalled(op, input, arg, ret) ==
    /\ result.op = "none"
    /\ result' = [op |-> op, input |-> input, arg |-> arg, ret |-> ret]
    /\ UNCHANGED << driver, service, layout, config, strategies, next_id, ctx, now, pc, running,
                    captured, outq, sendlog, observed, recorded, thr >>

\* packet.split_at_payload(offset)
Split(p, offset) == FnCalled("split", p, offset, split_at_payload(p, offset))

\* the fragmentation configurations: both sizes 0, the usual 2 or one past
\* the short payloads, and a size of 0 for one protocol only, as the Mode3
\* profile has it; in order and reversed, with and without by_sni
FragConfigs ==
    { [FragOff EXCEPT !.enabled = TRUE, !.http_size = size[1], !.https_size = size[2],
                      !.reverse_order = rev, !.by_sni = sni] :
          size \in { << 0, 0 >>, << 2, 2 >>, << 100, 100 >>, << 0, 40 >>, << 2, 0 >> },
          rev \in BOOLEAN, sni \in BOOLEAN }

TlsSniHello == [TlsHello EXCEPT !.payload = TlsSniPayload,
                                !.total_len = 40 + Len(TlsSniPayload)]

FragInputs ==
    { [p EXCEPT !.seq = s] : p \in {HttpRequest, TlsHello, TlsSniHello, BareAck},
                             s \in SeqNumbers }

\* fake-packet configurations with nothing but auto-TTL, a1 <= a2: the
\* defaults with and without min_ttl_hops, a1 = a2, a low maximum, a wide
\* a2 and no maximum to speak of
AutoFakes ==
    { [FakeOff EXCEPT !.enabled = TRUE, !.auto_ttl = AutoTtl(x[1], x[2], x[3]),
                      !.min_ttl_hops = x[4]] :
          x \in { << 1, 4, 10, Some(3) >>, << 1, 4, 10, None >>, << 2, 2, 3, Some(1) >>,
                  << 0, 5, 4, Some(1) >>, << 1, 9, 10, Some(3) >>, << 3, 8, 255, None >> } }

\* the SYN-ACK of the flow of the outbound packet p, arriving with TTL ttl
SynAckOf(p, ttl) ==
    MkPacket("in", "tcp", p.daddr, p.dport, p.saddr, p.sport, {"syn", "ack"}, ttl,
             7000, << >>)

\* FakePacketStrategy::apply of a strategy configured with fk, on a context
\* that has recorded the flow's SYN-ACK with TTL ttl
FakeAfterSynAck(fk, p, ttl) ==
    FnCalled("fake", p, [fk |-> fk, ttl |-> ttl],
             FakeApplyWith(fk, p,
                           calculate_ttl(fk, record_connection_ttl(ctx, SynAckOf(p, ttl), now),
                                         p, now)))

\* FragmentationStrategy::apply of a strategy configured with fr
Fragment(fr, p) ==
    FnCalled("fragment", p, fr,
             FragApplyAt(fr, p, ctx,
                         FragmentSize(fr, p, find_sni_fragment_position(fr, p))))

\* the header-mangle configurations: each of the two switches on or off
MangleConfigs ==
    { [enabled |-> TRUE, host_replace |-> r, host_mix_case |-> m] :
          r \in BOOLEAN, m \in BOOLEAN }

\* "GET /\r\nhost:x\r\n\r\n": a request with no "Host:" header in it
HttpNoHost ==
    [HttpRequest EXCEPT
        !.payload = << 71, 69, 84, 32, 47, 13, 10, 104, 111, 115, 116, 58, 120 >>
                        \o CrLf \o CrLf]

MangleInputs ==
    { [p EXCEPT !.seq = s] : p \in {HttpRequest, HttpNoHost}, s \in SeqNumbers }

\* HeaderMangleStrategy::apply on a packet should_apply accepts
Mangle(hm, p) ==
    /\ HeaderMangleShouldApply(p, ctx)
    /\ FnCalled("mangle", p, hm, HeaderMangleApplyWith(hm, p, ctx))

FnNext ==
    \/ \E hm \in MangleConfigs, p \in MangleInputs : Mangle(hm, p)
    \/ \E p \in SplitInputs, offset \in 0..(MaxPayload + 1) : Split(p, offset)
    \/ \E fr \in FragConfigs, p \in FragInputs : Fragment(fr, p)
    \/ \E fk \in AutoFakes, ttl \in 0..255 : FakeAfterSynAck(fk, TlsHello, ttl)

FnSpec == FnInit /\ [][FnNext]_vars

\* s + k modulo 2^32 for a k below 2^16, on the two halves of s
SeqPlus(s, k) ==
    IF s.lo + k < U16 THEN Word(s.hi, s.lo + k)
    ELSE IF s.hi + 1 < U16 THEN Word(s.hi + 1, s.lo + k - U16)
    ELSE Word(0, s.lo + k - U16)

SplitCalled == result.op = "split"

\* C14: for a TCP packet p with payload length L and an offset k with
\* 0 < k < L, split(p, k) yields (a, b) with a.payload = p.payload[..k],
\* b.payload = p.payload[k..], a.tcp_seq = p.tcp_seq, b.tcp_seq = p.tcp_seq + k
\* modulo 2^32, and both IPv4 total-length fields equal to the lengths of
\* their buffers.
C14_SplitCorrect ==
    ( /\ SplitCalled
      /\ is_tcp(result.input)
      /\ 0 < result.arg /\ result.arg < Len(result.input.payload) )
        => /\ result.ret.ok
           /\ Len(result.ret.first.payload) = result.arg
           /\ result.ret.first.payload \o result.ret.second.payload = result.input.payload
           /\ result.ret.first.seq = result.input.seq
           /\ result.ret.second.seq = SeqPlus(result.input.seq, result.arg)
           /\ result.ret.first.total_len =
                  result.input.hlen + Len(result.ret.first.payload)
           /\ result.ret.second.total_len =
                  result.input.hlen + Len(result.ret.second.payload)

\* a split whose second sequence number wraps around 2^32
C14_Witness ==
    /\ SplitCalled
    /\ is_tcp(result.input)
    /\ 0 < result.arg /\ result.arg < Len(result.input.payload)
    /\ result.ret.ok
    /\ result.input.seq = Word(U16 - 1, U16 - 2)
    /\ result.ret.second.seq = Word(0, 1)

\* C15: split_at_payload(offset) fails, and yields no packets, when the
\* offset is at or past the end of the payload or when the offset is 0.
C15_SplitRefusesOutOfRange ==
    ( /\ SplitCalled
      /\ (result.arg >= Len(result.input.payload) \/ result.arg = 0) )
        => ~result.ret.ok

FragmentCalled == result.op = "fragment" /\ FragShouldApply(result.input, ctx)

\* the offset the strategy fragments at
FragmentOffset ==
    FragmentSize(result.arg, result.input,
                 find_sni_fragment_position(result.arg, result.input))

\* apply has returned Replace of the two fragments at offset k, in the order
\* reverse_order asks for
ReplacedByFragments(k) ==
    /\ result.ret.ok
    /\ result.ret.action.tag = "Replace"
    /\ Len(result.ret.action.packets) = 2
    /\ LET first == result.ret.action.packets[IF result.arg.reverse_order THEN 2 ELSE 1]
           second == result.ret.action.packets[IF result.arg.reverse_order THEN 1 ELSE 2]
       IN  /\ first.payload = SubSeq(result.input.payload, 1, k)
           /\ first.seq = result.input.seq
           /\ second.payload = SubSeq(result.input.payload, k + 1,
                                      Len(result.input.payload))
           /\ second.seq = SeqPlus(result.input.seq, k)

\* C16 as stated: whenever fragmentation applies to a packet with sequence s
\* and fragment offset k, it returns Replace([second, first]) if
\* reverse_order is set and Replace([first, second]) otherwise, first with
\* payload[..k] and sequence s, second with payload[k..] and sequence s + k.
C16_AlwaysReplace ==
    FragmentCalled => ReplacedByFragments(FragmentOffset)

\* C16: when fragmentation applies to a packet with sequence s and the
\* fragment offset k is below the payload length, it returns
\* Replace([second, first]) if reverse_order is set and
\* Replace([first, second]) otherwise, first with payload[..k] and sequence
\* s, second with payload[k..] and sequence s + k; with a fragment offset at
\* or past the payload length it returns Pass of the packet.  Without
\* by_sni the offset is http_size for port 80 and https_size otherwise.
C16_ReplaceInOrder ==
    FragmentCalled =>
        /\ (~result.arg.by_sni) =>
               FragmentOffset = (IF result.input.dport = 80 THEN result.arg.http_size
                                 ELSE result.arg.https_size)
        /\ IF FragmentOffset < Len(result.input.payload)
           THEN ReplacedByFragments(FragmentOffset)
           ELSE result.ret.ok /\ result.ret.action = Pass(result.input)

\* the scenario of the specification: sequence 1000, https_size 2, reversed
C16_Witness ==
    /\ FragmentCalled
    /\ result.input.dport = 443 /\ result.input.seq = Word(0, 1000)
    /\ result.arg.https_size = 2 /\ result.arg.reverse_order /\ ~result.arg.by_sni
    /\ Len(result.ret.action.packets) = 2
    /\ result.ret.action.packets[1].seq = Word(0, 1002)
    /\ result.ret.action.packets[2].seq = Word(0, 1000)
    /\ Len(result.ret.action.packets[2].payload) = 2

Max0(x) == IF x > 0 THEN x ELSE 0

\* the hop count the specification estimates from a SYN-ACK TTL t; 0 when
\* it gives up
HopEstimate(t) ==
    IF 98 < t /\ t < 128 THEN 128 - t
    ELSE IF 34 < t /\ t < 64 THEN 64 - t
    ELSE 0

\* the specification's fake TTL for h hops, refined from the value "from";
\* 0 when it gives up
FakeTtlFor(h, a, min_hops, from) ==
    LET candidate == Max0(h - a.a2)
        refined == IF candidate < a.a2 /\ h <= 9
                   THEN Max0(from - a.a1 - ((a.a2 - a.a1) * h) \div 10)
                   ELSE candidate
    IN  IF h = 0 \/ (min_hops.some /\ h < min_hops.v) THEN 0
        ELSE IF refined > a.max THEN a.max ELSE refined

FakeCalled == result.op = "fake"

\* apply has emitted exactly one decoy, with TTL want, or has given up with
\* Pass when want is 0
OneDecoyWithTtl(want) ==
    /\ result.ret.ok
    /\ IF want = 0
       THEN result.ret.action = Pass(result.input)
       ELSE /\ result.ret.action.tag = "InjectBefore"
            /\ Len(result.ret.action.inject) = 1
            /\ result.ret.action.inject[1].ttl = want
            /\ result.ret.action.packets = << result.input >>

-----------------------------------------------------------------------------
(* ScenarioSpec: Pipeline::process under the configurations, contexts and   *)
(* packets of the end-to-end scenarios: one kind of decoy alone, QUIC       *)
(* blocking alone, and every strategy at once behind a domain filter.       *)

\* decoys with a wrong sequence number and nothing else
FakeWrongSeq == [FakeOff EXCEPT !.enabled = TRUE, !.wrong_seq = TRUE]

ScenarioConfigs ==
    { Config(FakeWrongSeq, MangleOff, FragOff, FALSE, DnsOff),
      Config(FakeOff, MangleOff, FragOff, TRUE, DnsOff),
      Config(FakeFixed, MangleOn, FragReverse, TRUE, DnsOn) }

\* "a.b", the name in TlsSniPayload, its parent "b", and "x.y"
HostAB == << 97, 46, 98 >>
HostB == << 98 >>
HostXY == << 120, 46, 121 >>

\* DomainFilter::with_domains
Filter(mode, exact, wildcard) == [mode |-> mode, exact |-> exact, wildcard |-> wildcard]

ScenarioFilters ==
    { Filter("whitelist", {HostAB}, {}), Filter("whitelist", {}, {HostB}),
      Filter("whitelist", {HostXY}, {}), Filter("blacklist", {HostAB}, {}) }

ScenarioContexts == { NewContext } \cup { ContextWithFilter(f) : f \in ScenarioFilters }

\* a UDP payload of n bytes with the given first byte and version
QuicPayload(first, version, n) ==
    [i \in 1..n |-> IF i = 1 THEN first ELSE IF i = 5 THEN version ELSE 0]

QuicPacket(payload) ==
    [QuicInitial EXCEPT !.payload = payload, !.total_len = 28 + Len(payload)]

\* QUIC Initials of version 1 and 0, and three packets that are none: a
\* later version, a short header, and one byte short of the minimum
QuicPackets ==
    { QuicPacket(QuicPayload(192, 1, QuicMinPayload)),
      QuicPacket(QuicPayload(255, 0, QuicMinPayload)),
      QuicPacket(QuicPayload(192, 2, QuicMinPayload)),
      QuicPacket(QuicPayload(191, 1, QuicMinPayload)),
      QuicPacket(QuicPayload(192, 1, QuicMinPayload - 1)) }

\* the HTTP request with a sequence number from which 10000 can be taken
\* and an acknowledgment number from which 66000 can
HttpRequestLate == [HttpRequest EXCEPT !.seq = Word(7, 20000), !.ack = Word(2, 1000)]

ScenarioPackets ==
    { HttpRequest, HttpRequestLate, TlsHello, TlsSniHello, BareAck } \cup QuicPackets

ScenarioInit ==
    /\ layout \in {"crates", "v2"}
    /\ config \in ScenarioConfigs
    /\ strategies = add_strategies(<< >>, from_config(config, 0))
    /\ next_id = Len(strategies)
    /\ ctx \in ScenarioContexts
    /\ now = 0
    /\ pc = "lib"
    /\ running = TRUE
    /\ captured = NoPacket
    /\ outq = << >>
    /\ sendlog = << >>
    /\ result = NoResult
    /\ observed = << >>
    /\ recorded = << >>
    /\ thr = NoThreads
    /\ driver = NoDriver
    /\ service = NoService

ScenarioNext ==
    \/ \E p \in ScenarioPackets : LibProcess(p)

ScenarioSpec == ScenarioInit /\ [][ScenarioNext]_vars

\* the step is a call of process
ProcessStep ==
    /\ result'.op = "process"
    /\ ctx'.stats.packets_processed = ctx.stats.packets_processed + 1

\* C17: with fake_packet enabled with wrong_seq only, resend_count 1 and no
\* hop record, process on an outbound HTTP request to port 80 returns
\* [decoy, original]; the decoy has the original's 5-tuple, is marked
\* is_fake, carries the benign GET template, and its sequence and
\* acknowledgment numbers are the original's less 10000 and 66000, modulo
\* 2^32.
C17_WrongSeqDecoy ==
    ( /\ Processed
      /\ config.fake = FakeWrongSeq
      /\ ctx.tcp_tracker = EmptyTable
      /\ is_outbound(result.input) /\ result.input.dport = 80
      /\ is_http_request(result.input)
      /\ AppliedBy("fake_packet") # {} )
        => /\ result.ok
           /\ Len(result.packets) = 2
           /\ result.packets[2] = [result.input EXCEPT !.hist = result.packets[2].hist]
           /\ LET decoy == result.packets[1]
                  original == result.input
              IN  /\ decoy.saddr = original.saddr /\ decoy.sport = original.sport
                  /\ decoy.daddr = original.daddr /\ decoy.dport = original.dport
                  /\ decoy.proto = original.proto
                  /\ decoy.is_fake
                  /\ decoy.payload = FakeHttpPayload
                  /\ wrapping_add(decoy.seq, SeqShift) = original.seq
                  /\ wrapping_add(decoy.ack, AckShift) = original.ack

\* a packet of the payload form quic_block is there to drop
QuicInitialOut(p) ==
    /\ is_outbound(p) /\ is_udp(p) /\ p.dport = 443
    /\ Len(p.payload) >= QuicMinPayload
    /\ p.payload[1] >= 192
    /\ p.payload[2] = 0 /\ p.payload[3] = 0 /\ p.payload[4] = 0
    /\ p.payload[5] \in {0, 1}

\* C19: with quic_block enabled, process on an outbound UDP packet to port
\* 443 with a payload of 1200 bytes or more, a first byte of 0xC0 or more
\* and version 0 or 1 returns the empty list, and stats.quic_blocked grows
\* by exactly 1.
C19_QuicInitialDropped ==
    [][ ( /\ ProcessStep
          /\ config.quic_block.enabled
          /\ QuicInitialOut(result'.input) )
            => /\ result'.ok
               /\ result'.packets = << >>
               /\ ctx'.stats.quic_blocked = ctx.stats.quic_blocked + 1 ]_vars

\* a QUIC Initial dropped on a fresh context: the counter is 1
C19_Witness ==
    /\ Processed
    /\ config.quic_block.enabled
    /\ QuicInitialOut(result.input)
    /\ result.packets = << >>
    /\ ctx.stats.packets_processed = 1
    /\ ctx.stats.quic_blocked = 1

\* an outbound ClientHello whose server name the whitelist of c lists
Whitelisted(p, c) ==
    /\ c.filter.mode = "whitelist"
    /\ is_outbound(p) /\ is_tcp(p) /\ p.dport = 443
    /\ is_tls_client_hello(p)
    /\ extract_sni(p).some
    /\ FilterMatches(c.filter, extract_sni(p).v)

\* C20: with filter mode whitelist and a hostname the filter matches, an
\* outbound ClientHello carrying that name goes through process as
\* [original], unchanged, and stats.packets_fragmented and
\* stats.fake_packets_sent stay as they were, whatever strategies are
\* enabled.
C20_WhitelistBypass ==
    [][ (ProcessStep /\ Whitelisted(result'.input, ctx))
            => /\ result'.ok
               /\ result'.packets = << result'.input >>
               /\ ctx'.stats.packets_fragmented = ctx.stats.packets_fragmented
               /\ ctx'.stats.fake_packets_sent = ctx.stats.fake_packets_sent ]_vars

\* the whitelisted ClientHello has gone through a pipeline with fake_packet
\* and fragmentation enabled, after a packet that was given decoys and
\* fragmented
C20_Witness ==
    /\ Processed
    /\ Whitelisted(result.input, ctx)
    /\ config.fake.enabled /\ config.fragmentation.enabled
    /\ result.packets = << result.input >>
    /\ ctx.stats.packets_processed = 2
    /\ ctx.stats.packets_fragmented = 1
    /\ ctx.stats.fake_packets_sent > 0


-----------------------------------------------------------------------------
(* FilterSpec: a DomainFilter that domains are added to and removed from,   *)
(* and that is asked about hostnames.                                       *)

\* "c.a.b", "C.A.B", "ab" and "z.x.y"
HostCAB == << 99, 46, 97, 46, 98 >>
HostCABUpper == << 67, 46, 65, 46, 66 >>
HostAb == << 97, 98 >>
HostZXY == << 122, 46, 120, 46, 121 >>

\* the lines of a list: "a.b", "*.b", "*.a.b", " *.B" with a blank and in
\* upper case, the comment "#c", the empty line and "x.y"
ListLines ==
    { HostAB, << 42, 46 >> \o HostB, << 42, 46 >> \o HostAB, << 32, 42, 46, 66 >>,
      << 35, 99 >>, << >>, HostXY }

Hostnames == { HostAB, HostB, HostCAB, HostCABUpper, HostAb, HostXY, HostZXY }

FilterInit == LibInit /\ config = Config(FakeOff, MangleOff, FragOff, FALSE, DnsOff)

\* one call on the context's filter
FilterCalled(op, arg, f, ret) ==
    /\ ctx' = [ctx EXCEPT !.filter = f]
    /\ result' = [op |-> op, input |-> arg, ret |-> ret]
    /\ UNCHANGED << driver, service,
                    layout, config, strategies, next_id, now, pc, running, captured,
                    outq, sendlog, observed, recorded, thr >>

AddDomain(d) == FilterCalled("add_domain", d, add_domain(ctx.filter, d), TRUE)

RemoveDomain(d) == FilterCalled("remove_domain", d, remove_domain(ctx.filter, d), TRUE)

Clear == FilterCalled("clear", << >>, clear(ctx.filter), TRUE)

Matches(h) == FilterCalled("matches", h, ctx.filter, FilterMatches(ctx.filter, h))

FilterNext ==
    \/ \E d \in ListLines : AddDomain(d)
    \/ \E d \in ListLines : RemoveDomain(d)
    \/ Clear
    \/ \E h \in Hostnames : Matches(h)

FilterSpec == FilterInit /\ [][FilterNext]_vars

\* hostname lies under the domain w: it ends, whatever the case, with a dot
\* and w
Under(hostname, w) ==
    /\ Len(hostname) > Len(w) + 1
    /\ hostname[Len(hostname) - Len(w)] = 46
    /\ ToLower(Suffix(hostname, Len(hostname) - Len(w))) = ToLower(w)

WildcardCovers ==
    \A w \in ctx.filter.wildcard, h \in Hostnames :
        Under(h, w) => FilterMatches(ctx.filter, h)

AddKeepsMatches ==
    result'.op = "add_domain" =>
        \A h \in Hostnames : FilterMatches(ctx.filter, h) => FilterMatches(ctx'.filter, h)

\* C21: while a domain is registered as a wildcard, every hostname under it
\* matches the filter; and add_domain never turns a hostname that matched
\* into one that does not.
C21_FilterMonotone == [][WildcardCovers' /\ AddKeepsMatches]_vars

\* the wildcard was given as " *.B" and the filter is asked about "C.A.B",
\* two labels below it
C21_Witness ==
    /\ result.op = "matches"
    /\ result.input = HostCABUpper
    /\ result.ret
    /\ ctx.filter.wildcard = { HostB }
    /\ ctx.filter.exact = {}


-----------------------------------------------------------------------------
(* The driver handle and the end of the loop *)

\* the scope of the driver has been left: by close and return, or by a panic
ScopeLeft == pc \in {"closed", "returned", "unwound"}

\* C22: close is idempotent, a close of a closed driver changing nothing,
\* and the driver holds no open handle once the scope of the loop has been
\* left, whether by the close that follows the loop and the return or by a
\* panic unwinding out of the loop's body.
C22_NoLeakedHandle ==
    /\ close(close(driver)) = close(driver)
    /\ ~driver.is_open => close(driver) = driver
    /\ ScopeLeft => ~driver.is_open /\ ~driver.handle

\* a panic has unwound the loop with packets of the iteration still unsent
C22_Witness ==
    /\ pc = "unwound"
    /\ outq # << >>
    /\ sendlog # << >>
    /\ ~driver.handle


-----------------------------------------------------------------------------
(* Cancellation of the loop *)

\* the steps the thread of the loop takes by itself; what driver.recv()
\* returns, and when, is the driver's doing
LoopStep ==
    \/ Enter
    \/ \E ok \in BOOLEAN : Send(ok)
    \/ Close
    \/ Return

\* the loop runs whenever it can; packets arrive or do not
CancelSpec == Spec /\ WF_vars(LoopStep)

\* C25: once the running flag is cleared the loop comes to its end without
\* another packet having to arrive: a recv that is blocked at that moment is
\* interrupted.
C25_CancelTerminates == (~running) ~> ScopeLeft


-----------------------------------------------------------------------------
(* StatsSpec: the scenarios, with DNS queries among the packets and with    *)
(* the statistics reset between calls.                                      *)

\* ctx.reset_stats(); "result" keeps the counters as they were
ResetStats ==
    /\ ctx' = reset_stats(ctx)
    /\ result' = [NoResult EXCEPT !.op = "reset_stats", !.at = now, !.ret = Some(ctx.stats)]
    /\ UNCHANGED << driver, service, layout, config, strategies, next_id, now, pc, running,
                    captured, outq, sendlog, observed, recorded, thr >>

StatsNext ==
    \/ \E p \in ScenarioPackets \cup { DnsQuery } : LibProcess(p)
    \/ \E p \in Inbound : LibRecord(p)
    \/ ResetStats

StatsSpec == ScenarioInit /\ [][StatsNext]_vars

Counters == DOMAIN ZeroStats

NoCounterDecreases == \A k \in Counters : ctx'.stats[k] >= ctx.stats[k]

ResetStep == result'.op = "reset_stats"

\* C23 as stated: no operation on a context ever decreases a counter.
C23_NeverDecreases == [][NoCounterDecreases]_vars

\* C23: process and record_connection_ttl never decrease a counter of the
\* context's Stats; reset_stats sets every counter to zero.
C23_MonotonicUntilReset ==
    [][IF ResetStep THEN ctx'.stats = ZeroStats ELSE NoCounterDecreases]_vars

\* counters that had grown have been reset
C23_Witness ==
    /\ result.op = "reset_stats"
    /\ result.ret.v.packets_processed = MaxCalls
    /\ result.ret.v.fake_packets_sent > 0
    /\ result.ret.v.packets_fragmented > 0
    /\ ctx.stats = ZeroStats


-----------------------------------------------------------------------------
(* A fragment size of zero *)

\* the configuration the fragmentation strategy of the call was built from
FragmentConfig == Config(FakeOff, MangleOff, result.arg, FALSE, DnsOff)

\* the size configured for the protocol of the packet is 0, the other is not
ZeroForProtocol ==
    /\ get_fragment_size(result.arg, result.input) = 0
    /\ result.arg.http_size # 0 \/ result.arg.https_size # 0

\* C24: a fragment size of 0 for one protocol, the other's not 0, passes
\* validation and disables fragmentation for that protocol: a request of
\* that protocol leaves the strategy as the one packet it was.
C24_ZeroDisables ==
    (FragmentCalled /\ ZeroForProtocol) =>
        /\ validate(FragmentConfig)
        /\ result.ret.ok
        /\ result.ret.action.tag = "Pass"
        /\ result.ret.action.packets = << result.input >>


-----------------------------------------------------------------------------
(* ReloadSpec: one thread reloads the DomainFilter from its file while      *)
(* another asks it about hostnames.  Every operation on one of the two      *)
(* DashSets is a step of its own; "thr" holds the file, the position of     *)
(* load_file and the position of matches.                                   *)

\* how often the file is rewritten
MaxEdits == 2

\* two versions of the list: both have "a.b" and "*.b", the second has
\* "x.y" as well, after a comment
ListFiles ==
    { << HostAB, << 42, 46 >> \o HostB >>,
      << << 35, 99 >>, HostXY, << 42, 46 >> \o HostB, HostAB >> }

\* the filter that holds the lines of a file
RECURSIVE Loaded(_, _)
Loaded(f, lines) ==
    IF lines = << >> THEN f ELSE Loaded(add_domain(f, Head(lines)), Tail(lines))

ReloadInit ==
    /\ layout = "crates"
    /\ config = Config(FakeOff, MangleOff, FragOff, FALSE, DnsOff)
    /\ strategies = << >>
    /\ next_id = 0
    /\ ctx \in { ContextWithFilter(Loaded(Filter("whitelist", {}, {}), lines)) :
                     lines \in ListFiles }
    /\ now = 0
    /\ pc = "threads"
    /\ running = TRUE
    /\ captured = NoPacket
    /\ outq = << >>
    /\ sendlog = << >>
    /\ result = NoResult
    /\ observed = << >>
    /\ recorded = << >>
    /\ driver = NoDriver
    /\ service = NoService
    /\ thr \in { [ file |-> [lines |-> lines, modified |-> 1], last_modified |-> 1,
                   load |-> [pc |-> "idle", pending |-> << >>],
                   read |-> [pc |-> "idle", hostname |-> << >>, current |-> << >>] ] :
                     lines \in ListFiles }

ReloadUnchanged ==
    UNCHANGED << driver, service, layout, config, strategies, next_id, now, pc, running, captured,
                 outq, sendlog, observed, recorded >>

\* somebody saves a new version of the file
EditFile(lines) ==
    /\ thr.file.modified <= MaxEdits
    /\ thr' = [thr EXCEPT !.file = [lines |-> lines, modified |-> @.modified + 1]]
    /\ UNCHANGED << ctx, result >>
    /\ ReloadUnchanged

\* check_reload: the file is newer than the one loaded, and load_file reads
\* it and notes its modification time
CheckReload ==
    /\ thr.load.pc = "idle"
    /\ thr.file.modified > thr.last_modified
    /\ thr' = [thr EXCEPT !.load = [pc |-> "clear_exact", pending |-> thr.file.lines],
                          !.last_modified = thr.file.modified]
    /\ UNCHANGED << ctx, result >>
    /\ ReloadUnchanged

\* clear: exact_domains.clear()
ClearExact ==
    /\ thr.load.pc = "clear_exact"
    /\ ctx' = [ctx EXCEPT !.filter.exact = {}]
    /\ thr' = [thr EXCEPT !.load.pc = "clear_wildcard"]
    /\ UNCHANGED result
    /\ ReloadUnchanged

\* clear: wildcard_domains.clear()
ClearWildcard ==
    /\ thr.load.pc = "clear_wildcard"
    /\ ctx' = [ctx EXCEPT !.filter.wildcard = {}]
    /\ thr' = [thr EXCEPT !.load.pc = "add"]
    /\ UNCHANGED result
    /\ ReloadUnchanged

\* the loop over the lines: add_domain of the next line, or the end
AddLine ==
    /\ thr.load.pc = "add"
    /\ IF thr.load.pending = << >>
       THEN /\ thr' = [thr EXCEPT !.load.pc = "idle"]
            /\ UNCHANGED ctx
       ELSE /\ thr' = [thr EXCEPT !.load.pending = Tail(@)]
            /\ ctx' = [ctx EXCEPT !.filter = add_domain(@, Head(thr.load.pending))]
    /\ UNCHANGED result
    /\ ReloadUnchanged

\* matches(hostname) is called
MatchesCalled(hostname) ==
    /\ thr.read.pc = "idle"
    /\ thr' = [thr EXCEPT !.read = [pc |-> "exact", hostname |-> ToLower(hostname),
                                    current |-> ToLower(hostname)]]
    /\ UNCHANGED << ctx, result >>
    /\ ReloadUnchanged

MatchesReturns(ret) ==
    /\ thr' = [thr EXCEPT !.read.pc = "idle"]
    /\ result' = [op |-> "matches", input |-> thr.read.hostname, ret |-> ret]

\* exact_domains.contains(&hostname)
MatchesExact ==
    /\ thr.read.pc = "exact"
    /\ IF thr.read.hostname \in ctx.filter.exact
       THEN MatchesReturns(TRUE)
       ELSE thr' = [thr EXCEPT !.read.pc = "walk"] /\ UNCHANGED result
    /\ UNCHANGED ctx
    /\ ReloadUnchanged

\* one round of the loop: wildcard_domains.contains(current), then on to the
\* parent domain
MatchesWalk ==
    /\ thr.read.pc = "walk"
    /\ LET current == thr.read.current
           dots == { i \in 1..Len(current) : current[i] = 46 }
       IN  IF current \in ctx.filter.wildcard
           THEN MatchesReturns(TRUE)
           ELSE /\ thr' = IF dots = {}
                          THEN [thr EXCEPT !.read.pc = "last"]
                          ELSE [thr EXCEPT !.read.current =
                                    Suffix(current, CHOOSE i \in dots : \A j \in dots : i <= j)]
                /\ UNCHANGED result
    /\ UNCHANGED ctx
    /\ ReloadUnchanged

\* the last lookup: wildcard_domains.contains(&hostname)
MatchesLast ==
    /\ thr.read.pc = "last"
    /\ MatchesReturns(thr.read.hostname \in ctx.filter.wildcard)
    /\ UNCHANGED ctx
    /\ ReloadUnchanged

ReloadNext ==
    \/ \E lines \in ListFiles : EditFile(lines)
    \/ CheckReload
    \/ ClearExact
    \/ ClearWildcard
    \/ AddLine
    \/ \E h \in Hostnames : MatchesCalled(h)
    \/ MatchesExact
    \/ MatchesWalk
    \/ MatchesLast

ReloadSpec == ReloadInit /\ [][ReloadNext]_vars

\* hostname is matched by every version of the list
AlwaysListed(hostname) ==
    \A lines \in ListFiles : FilterMatches(Loaded(Filter("whitelist", {}, {}), lines), hostname)

\* C26: a reload of the filter from its file is atomic for the readers: a
\* matches(h) that runs while the filter is reloaded does not return false
\* for a hostname h that is listed before and after the reload.
C26_ReloadAtomic ==
    (result.op = "matches" /\ AlwaysListed(result.input)) => result.ret


-----------------------------------------------------------------------------
(* ServiceSpec: the GUI's ServiceController.  "service" holds the           *)
(* controller's fields, the workers that have been spawned and have not     *)
(* yet sent their result, what lies in each result channel, the results     *)
(* sent into a channel whose receiver was dropped, and the number of        *)
(* engine processes running.                                                *)

\* how many workers are spawned in one run
MaxWorkers == 3

ServiceInit ==
    /\ LibInit
    /\ config = Config(FakeOff, MangleOff, FragOff, FALSE, DnsOff)
    /\ layout = "crates"
    /\ strategies = << >>

\* ServiceStatus::is_running
is_running(status) == status \in {"Running", "Starting"}

\* "let (tx, rx) = mpsc::channel(); self.result_rx = Some(rx); thread::spawn":
\* the receiver that was in result_rx is dropped, with what lay in its channel
Spawned(s, kind, pid) ==
    [s EXCEPT !.channels = @ + 1,
              !.result_rx = Some(s.channels + 1),
              !.workers = @ \cup { [ch |-> s.channels + 1, kind |-> kind, pid |-> pid] },
              !.sent = << >>,
              !.lost = IF s.sent = << >> THEN @
                       ELSE @ \cup { << s.result_rx.v, s.sent[1].tag >> }]

\* ServiceController::start; process is never set, so the test is on
\* process_id
start(s) ==
    IF s.process_id.some THEN s
    ELSE Spawned([s EXCEPT !.status = "Starting"], "start", None)

\* ServiceController::stop
stop(s) ==
    IF ~s.process_id.some THEN s
    ELSE Spawned([s EXCEPT !.status = "Stopping", !.process_id = None], "stop",
                 s.process_id)

\* ServiceController::toggle
toggle(s) == IF is_running(s.status) THEN stop(s) ELSE start(s)

\* "let _ = tx.send(result)": the result lies in the channel if its receiver
\* is still in result_rx, and is lost if the receiver was dropped
Sent(s, w, res) ==
    IF s.result_rx = Some(w.ch)
    THEN [s EXCEPT !.workers = @ \ {w}, !.sent = << res >>]
    ELSE [s EXCEPT !.workers = @ \ {w}, !.lost = @ \cup { << w.ch, res.tag >> }]

\* ServiceController::check_status: the result that lies in the channel is
\* taken and the status follows it; then a Running controller looks for the
\* process whose id it has
check_status(s) ==
    LET polled ==
            IF s.result_rx.some /\ s.sent # << >>
            THEN LET res == s.sent[1]
                 IN  [s EXCEPT !.result_rx = None, !.sent = << >>,
                               !.process_id = IF res.tag = "Started" THEN res.pid ELSE @,
                               !.status = CASE res.tag = "Started" -> "Running"
                                            [] res.tag = "StartFailed" -> "Error"
                                            [] res.tag = "Stopped" -> "Stopped"
                                            [] res.tag = "StopFailed" -> "Error"]
            ELSE s
    IN  IF polled.status = "Running" /\ polled.process_id.some /\ polled.engines = 0
        THEN [polled EXCEPT !.process_id = None, !.status = "Stopped"]
        ELSE polled

ServiceCalled(op, s, ret) ==
    /\ service' = s
    /\ result' = [op |-> op, ret |-> ret]
    /\ UNCHANGED << driver, layout, config, strategies, next_id, ctx, now, pc, running,
                    captured, outq, sendlog, observed, recorded, thr >>

Start ==
    /\ service.channels < MaxWorkers
    /\ ServiceCalled("start", start(service), None)

Stop ==
    /\ service.channels < MaxWorkers
    /\ ServiceCalled("stop", stop(service), None)

Toggle ==
    /\ service.channels < MaxWorkers
    /\ ServiceCalled("toggle", toggle(service), None)

\* the result check_status found in the channel, if any
Polled == IF service.result_rx.some /\ service.sent # << >>
          THEN Some(service.sent[1].tag) ELSE None

CheckStatus == ServiceCalled("check_status", check_status(service), Polled)

\* start_elevated_async comes to its end: the engine was launched and its
\* process id found or not, or the launch failed
StartWorkerDone(w, res) ==
    /\ w \in service.workers
    /\ w.kind = "start"
    /\ ServiceCalled("start_worker",
                     Sent([service EXCEPT !.engines = IF res.tag = "Started" THEN @ + 1 ELSE @],
                          w, res),
                     None)

\* stop_async comes to its end: every goodbyedpi.exe has been killed
StopWorkerDone(w) ==
    /\ w \in service.workers
    /\ w.kind = "stop"
    /\ ServiceCalled("stop_worker",
                     Sent([service EXCEPT !.engines = 0], w, [tag |-> "Stopped", pid |-> None]),
                     None)

\* the engine process ends by itself
EngineExit ==
    /\ service.engines > 0
    /\ ServiceCalled("engine_exit", [service EXCEPT !.engines = @ - 1], None)

StartResults ==
    { [tag |-> "Started", pid |-> Some(1)], [tag |-> "Started", pid |-> None],
      [tag |-> "StartFailed", pid |-> None] }

ServiceNext ==
    \/ Start
    \/ Stop
    \/ Toggle
    \/ CheckStatus
    \/ \E w \in service.workers, res \in StartResults : StartWorkerDone(w, res)
    \/ \E w \in service.workers : StopWorkerDone(w)
    \/ EngineExit

ServiceSpec == ServiceInit /\ [][ServiceNext]_vars

\* C27: the controller has at most one start or stop worker outstanding: a
\* start, stop or toggle issued while the status is Starting or Stopping
\* launches no second worker and no second engine and leaves the pending
\* result channel in place, so that no worker's result goes unobserved.
C27_OneWorker ==
    /\ Cardinality(service.workers) <= 1
    /\ service.engines <= 1
    /\ service.lost = {}

\* C28: in status Running a stop or a toggle moves the controller to
\* Stopping, and the check_status that polls the stop worker's result moves
\* it on to Stopped or Error, whatever the start worker had reported.
C28_StopTakesEffect ==
    [][/\ (service.status = "Running" /\ result'.op \in {"stop", "toggle"}) =>
              service'.status = "Stopping"
       /\ (service.status = "Stopping" /\ result'.op = "check_status" /\ result'.ret.some) =>
              service'.status \in {"Stopped", "Error"}]_vars


-----------------------------------------------------------------------------
(* AutoTtlSpec: the auto-TTL computation over the range of its inputs *)

\* auto-TTL settings over the whole range of u8, a1 above a2 included
AnyAutoFakes ==
    { [FakeOff EXCEPT !.enabled = TRUE, !.auto_ttl = AutoTtl(a1, a2, max),
                      !.min_ttl_hops = min_hops] :
          a1 \in {0, 1, 4, 9, 255}, a2 \in {0, 1, 4, 9, 255}, max \in {0, 3, 255},
          min_hops \in {None, Some(3)} }

\* auto_ttl_calculate(conn_ttl, config), in a build with or without
\* overflow checks
AutoTtlCalculate(fk, conn_ttl, overflow_checks) ==
    FnCalled("auto_ttl", TlsHello, [fk |-> fk, ttl |-> conn_ttl],
             auto_ttl_outcome(fk, conn_ttl, overflow_checks))

AutoTtlInit ==
    /\ FnInit
    /\ layout = "crates"
    /\ strategies = << >>

\* one call, made in the initial state
AutoTtlNext ==
    /\ result.op = "none"
    /\ \E fk \in AnyAutoFakes, conn_ttl \in 0..255, overflow_checks \in BOOLEAN :
           AutoTtlCalculate(fk, conn_ttl, overflow_checks)

AutoTtlSpec == AutoTtlInit /\ [][AutoTtlNext]_vars

\* C29: for every recorded TTL and every a1, a2, max and min_hops, a1 > a2
\* included, auto_ttl_calculate gives up or returns a value from 1 to max,
\* and no subtraction in it underflows.
C29_AutoTtlTotal ==
    result.op = "auto_ttl" =>
        /\ ~result.ret.underflow
        /\ ~result.ret.panic
        /\ result.ret.ret.some =>
               1 <= result.ret.ret.v /\ result.ret.ret.v <= result.arg.fk.auto_ttl.max


-----------------------------------------------------------------------------
(* header mangling with both switches on *)

MangleCalled == result.op = "mangle"

\* the request carries a Host header: "\r\nHost: ", a value, and "\r\n"
HasHostHeader ==
    LET hdr == find_host_header(result.input.payload)
    IN  hdr.some /\ hdr.start + 8 < hdr.end

\* the payload with the header name "hoSt:" and the value alternate-cased
BothMutations(payload) ==
    LET hdr == find_host_header(payload)
    IN  mix_case_hostname(Overwrite(payload, hdr.start, HostReplacement),
                          hdr.start + 8, hdr.end)

\* C30: when header-mangle is configured with both host_replace and
\* host_mix_case, a single apply on an outbound HTTP request containing a
\* Host header performs both mutations: the header name becomes "hoSt:" and
\* the hostname value is alternate-cased, with the payload length unchanged.
C30_BothMutations ==
    ( /\ MangleCalled
      /\ result.arg.host_replace
      /\ result.arg.host_mix_case
      /\ HasHostHeader ) =>
        /\ result.ret.ok
        /\ result.ret.action.tag = "Pass"
        /\ Len(result.ret.action.packets[1].payload) = Len(result.input.payload)
        /\ result.ret.action.packets[1].payload = BothMutations(result.input.payload)

\* either switch alone does its own mutation, and the length stays
C30_EachAlone ==
    ( /\ MangleCalled
      /\ result.arg.host_replace # result.arg.host_mix_case
      /\ HasHostHeader ) =>
        LET hdr == find_host_header(result.input.payload)
            out == result.ret.action.packets[1].payload
        IN  /\ Len(out) = Len(result.input.payload)
            /\ result.arg.host_replace =>
                   out = Overwrite(result.input.payload, hdr.start, HostReplacement)
            /\ result.arg.host_mix_case =>
                   out = mix_case_hostname(result.input.payload, hdr.start + 8, hdr.end)

=============================================================================
